---- MODULE Spec2Model ----
(***************************************************************************)
(* Text-to-speech studio: the TTSApp component (src/unnamed/part_004,      *)
(* lines 69-1320), the voice selector and the remote-history panel         *)
(* (src/src/components/elevenlabs-history.tsx).                            *)
(*                                                                         *)
(* React state is modelled by one variable per useState/useRef cell.  An   *)
(* async handler is cut at its awaits: the step that issues the request    *)
(* stores the values its closure captured (the render's text, voices,      *)
(* selectedVoice, volume), and the steps after an await read those, as the *)
(* JavaScript closure does, while setState calls write the live cells.     *)
(* A control's handler runs only while the control is rendered and         *)
(* enabled; the ...Enabled definitions are the JSX conditions.             *)
(***************************************************************************)
EXTENDS Integers, Sequences, FiniteSets, TLC

VARIABLES
    (* TTSApp core state, part_004:71-83 *)
    text, isLoading, isPlaying, voices, selectedVoice, isLoadingVoices,
    (* part_004:104-107 *)
    audioHistory, savedAudio,
    (* module-level audio context and gain stage, part_004:66-67, 93, 121 *)
    audioContext, gainValue, volume, sourceRef,
    (* Web Audio buffer sources: audible ones, and finished ones whose     *)
    (* "ended" event has not been dispatched yet                           *)
    playing, endedPending,
    (* synthesizeSpeech: calls suspended at an await, the number of        *)
    (* invocations, and the effects of the call that settled last          *)
    synthCalls, nSynth, lastSettled,
    (* fetchVoices call in flight, part_004:177-204 *)
    voicesCall,
    (* the variant of the toast shown last *)
    toast,
    (* EnhancedVoiceSelector state, elevenlabs-history.tsx:350-357 *)
    dialog, newVoiceName, deleteVoiceId, isDeleting,
    (* handleRename and handleDelete/handleDeleteVoice calls in flight *)
    renameCalls, nRename, deleteCalls,
    (* the rename calls whose completions wrote voices, in the order they  *)
    (* were applied, and the voice ids whose DELETE completed successfully *)
    voicesWrites, deleted,
    (* the tab shown (Tabs, part_004:717) and the HistoryComponent state,  *)
    (* elevenlabs-history.tsx:47-48; the component exists while its tab is *)
    (* the one shown                                                       *)
    activeTab, historyItems, panelLoading,
    (* fetchHistory and handleDeleteHistoryItem calls in flight, the       *)
    (* number issued, and the call whose completion wrote historyItems last *)
    fetchCalls, delItemCalls, nPanelCall, itemsWriter,
    (* the history the Gateway holds *)
    gatewayHistory,
    (* voice cloning state, part_004:77-82, 110-113, 89 *)
    isCloning, voiceName, selectedFile, recordedAudio, audioURL,
    recordingDuration, uploadProgress, isVoiceDialogOpen,
    (* handleVoiceCloning calls in flight, the number issued, and whether  *)
    (* a progress interval is alive                                        *)
    cloneCalls, nClone, progressTimer,
    (* voice settings, part_004:96-101, and the mute toggle's cells, 94-95 *)
    stability, similarity, style, speakerBoost, isMuted, previousVolume,
    (* presets, part_004:105-106, the Save Preset dialog, 88 and 90, and   *)
    (* the number of presets saved so far (the Date.now() token of an id)  *)
    presets, selectedPreset, isPresetDialogOpen, presetName, nPreset,
    (* the recorder session, part_004:76 and 79: the MediaRecorder objects *)
    (* created so far with their state, the getUserMedia calls pending,    *)
    (* the number of startRecording calls, recordingTimerRef (85) and the  *)
    (* duration intervals that are alive, and the audio each recorder has  *)
    (* gathered, in units                                                  *)
    isRecording, mediaRecorder, recorders, micCalls, nMic,
    recordingTimerRef, timers, captured,
    (* localStorage under "audioHistory" and "voicePresets", what the      *)
    (* audioHistory and presets cells hold when it is not an array, and    *)
    (* whether a render or a state updater has thrown                      *)
    storedHistory, storedPresets, historyKind, presetsKind, crashed,
    (* POST /api/clone-voice: the request answered last, its answer, and   *)
    (* whether the Gateway was called for it                               *)
    proxyLog,
    (* the proxy routes: the request a route answered last, with what it   *)
    (* sent to the Gateway and what it answered                            *)
    relayLog,
    (* whether the <audio> element of the recorded sample (part_004:661-   *)
    (* 666, audioRef) is playing                                           *)
    previewPlaying

coreVars == <<text, isLoading, isPlaying, voices, selectedVoice, isLoadingVoices>>
storeVars == <<audioHistory, savedAudio>>
audioVars == <<audioContext, gainValue, volume, sourceRef, playing, endedPending>>
synthVars == <<synthCalls, nSynth, lastSettled>>
selVars == <<dialog, newVoiceName, deleteVoiceId, isDeleting,
               renameCalls, nRename, deleteCalls, voicesWrites, deleted>>
panelVars == <<activeTab, historyItems, panelLoading, fetchCalls,
               delItemCalls, nPanelCall, itemsWriter, gatewayHistory>>
cloneVars == <<isCloning, voiceName, selectedFile, recordedAudio, audioURL,
               recordingDuration, uploadProgress, isVoiceDialogOpen,
               cloneCalls, nClone, progressTimer>>
settingVars == <<stability, similarity, style, speakerBoost, isMuted,
                 previousVolume>>
presetVars == <<presets, selectedPreset, isPresetDialogOpen, presetName,
                nPreset>>
recVars == <<isRecording, mediaRecorder, recorders, micCalls, nMic,
             recordingTimerRef, timers, captured>>
lsVars == <<storedHistory, storedPresets, historyKind, presetsKind, crashed>>
extRest == <<settingVars, presetVars, recVars, lsVars, proxyLog, relayLog>>
extVars == <<extRest, previewPlaying>>
vars == <<coreVars, storeVars, audioVars, synthVars, voicesCall, toast,
          selVars, panelVars, cloneVars, extVars>>

----------------------------------------------------------------------------
(* Bounds of the model *)

\* synthesizeSpeech invocations in one behaviour
MaxSynth == 3

\* synthesizeSpeech invocations where the history is filled past its cap
MaxSynthLong == 11

\* synthesizeSpeech invocations in the specifications that check one call
MaxSynthFew == 2

\* synthesizeSpeech invocations where the loading flags are followed
MaxSynthOne == 1

\* requests of all kinds issued where the loading flags are followed
MaxIssued == 3

\* handleRename calls issued in one behaviour
MaxRename == 2

\* fetchHistory and handleDeleteHistoryItem calls issued in one behaviour
MaxPanelCalls == 2

\* handleVoiceCloning calls issued in one behaviour
MaxClone == 1

\* startRecording calls in one behaviour
MaxMic == 2

\* presets saved in one behaviour
MaxPresets == 1

\* units of audio one recorder gathers
MaxCapture == 1

\* rename, delete and clone calls issued in one behaviour of SpecVoiceList
MaxListCalls == 2

(* Program constants *)

\* slice(0, 10) of the history, part_004:350
HistoryCap == 10

\* useState([50]), part_004:93
InitialVolume == 50

\* useState([0.5]), useState([0.70]) and useState([0]), part_004:96, 97, 100;
\* a setting is counted in hundredths, the step of its slider (851)
InitialStability == 50
InitialSimilarity == 70
InitialStyle == 0

\* resetSettings, part_004:269-270
ResetStability == 50
ResetSimilarity == 75

----------------------------------------------------------------------------
(* Values *)

\* Texts the user can type: sequences of characters, " " is whitespace.
Texts == { <<>>, <<" ", " ">>, <<"a">>, <<" ", "b">> }

\* generateRandomText's examples, part_004:282-287 (none is blank)
Examples == { <<"e", " ", "x">> }

\* What GET /api/voices answers (the Gateway's voice list).
ServerVoices ==
    << [voice_id |-> "v1", name |-> <<"A">>, category |-> "premade"],
       [voice_id |-> "v2", name |-> <<"B">>, category |-> "cloned"] >>

\* What the user can type into the rename dialog's input.
NewNames == { <<>>, <<" ">>, <<"C">>, <<"D">> }

\* The voice ids POST /api/clone-voice answers, by call.
NewVoiceIds == << "n1", "n2", "n3" >>

\* What the user can type into the clone form's name input.
CloneNames == { <<>>, <<"M">> }

\* The history the Gateway holds at first; "v9" is a voice that no longer
\* exists.
GatewayHistory0 ==
    << [history_item_id |-> "h1", text |-> <<"h">>, voice_id |-> "v2"],
       [history_item_id |-> "h2", text |-> <<"k">>, voice_id |-> "v9"] >>

\* `${...}?.name || "Unknown Voice"`
UnknownVoice == <<"?">>

NoVoice == ""
NoSource == 0
NoCall == 0
None == "none"
NoAudio == [call |-> NoCall, text |-> <<>>, voiceId |-> NoVoice]
NoDialog == [type |-> "details", voiceId |-> NoVoice]
\* Where the sliders and the name input of the Save Preset dialog are put.
StabilityValues == { 100 }
SimilarityValues == { 100 }
StyleValues == { 100 }
VolumeValues == { 0, 30, 100 }
PresetNames == { <<"P">> }

NoPreset == 0
NoRecorder == 0
NoTimer == 0

\* new Blob(chunks, ...), part_004:435: the blob of n units of audio
Blobs == << "blob0", "blob1", "blob2", "blob3" >>
BlobOf(n) == Blobs[n + 1]

\* A localStorage value: the key is absent (getItem answers null), its text
\* is not JSON, or it is the JSON text of an array of entries, of null, of
\* an object, or of an array whose entries have an older shape (no
\* settings field).  A state cell holds what JSON.parse made of it.
Absent == [kind |-> "absent", items |-> <<>>]
Unparseable == [kind |-> "unparseable", items |-> <<>>]
JsonNull == [kind |-> "null", items |-> <<>>]
JsonObject == [kind |-> "object", items |-> <<>>]
JsonOldEntries == [kind |-> "oldEntries", items |-> <<>>]
JsonArray(items) == [kind |-> "array", items |-> items]

NoRequest == [files |-> 0, name |-> <<>>, answer |-> "none",
              answered_id |-> "",
              reply |-> [status |-> 0, voice_id |-> "", gateway |-> FALSE]]

\* What POST /api/tts is sent (part_004:313-320); settings in hundredths.
NoBody == [text |-> <<>>, voiceId |-> NoVoice, stability |-> 0,
           similarity_boost |-> 0, style |-> 0, use_speaker_boost |-> FALSE]

\* What a route sends to the Gateway: the key header and, for a synthesis,
\* the JSON body.
NoForward == [key |-> "", text |-> <<>>, voiceId |-> NoVoice,
              model_id |-> "", voice_settings |-> <<>>]

NoRelay == [route |-> "none", credential |-> "absent", body |-> NoBody,
            answer |-> "none",
            reply |-> [status |-> 0, error |-> "", called |-> FALSE,
                       forwarded |-> NoForward]]

----------------------------------------------------------------------------
(* Pure helpers *)

IsSpace(c) == c = " "

RECURSIVE TrimStart(_)
TrimStart(s) ==
    IF s = <<>> THEN <<>>
    ELSE IF IsSpace(Head(s)) THEN TrimStart(Tail(s)) ELSE s

RECURSIVE TrimEnd(_)
TrimEnd(s) ==
    IF s = <<>> THEN <<>>
    ELSE IF IsSpace(s[Len(s)]) THEN TrimEnd(SubSeq(s, 1, Len(s) - 1)) ELSE s

\* String.prototype.trim
NoTrim(s) == s
Trim(s) == TrimEnd(TrimStart(s))

\* text.trim().split(/\s+/).filter(w => w.length > 0).length, part_004:167-171:
\* the number of maximal runs of non-space characters.
RECURSIVE WordCount(_)
WordCount(s) ==
    IF s = <<>> THEN 0
    ELSE IF IsSpace(Head(s)) THEN WordCount(Tail(s))
    ELSE IF Len(s) = 1 \/ IsSpace(s[2]) THEN 1 + WordCount(Tail(s))
    ELSE WordCount(Tail(s))

\* Math.ceil((words / 150) * 60), part_004:173
EstimatedDuration(s) == (WordCount(s) * 60 + 149) \div 150

\* The first index of vs whose voice has this id, 0 when there is none
\* (Array.prototype.find).
FindVoice(vs, id) ==
    LET hits == { i \in 1..Len(vs) : vs[i].voice_id = id } IN
    IF hits = {} THEN 0 ELSE CHOOSE i \in hits : \A j \in hits : i <= j

\* voices.find(v => v.voice_id === id)?.name || "Unknown Voice", part_004:339-344
VoiceNameOf(vs, id) ==
    LET i == FindVoice(vs, id) IN
    IF i = 0 THEN UnknownVoice
    ELSE IF vs[i].name = <<>> THEN UnknownVoice ELSE vs[i].name

VoiceIds(vs) == { vs[i].voice_id : i \in 1..Len(vs) }

\* voices.filter(v => v.category === "cloned"), elevenlabs-history.tsx:361
ClonedIds(vs) == { vs[i].voice_id : i \in { j \in 1..Len(vs) : vs[j].category = "cloned" } }

\* voices.filter(voice => voice.voice_id !== id), part_004:590
RECURSIVE WithoutVoice(_, _)
WithoutVoice(vs, id) ==
    IF vs = <<>> THEN <<>>
    ELSE IF Head(vs).voice_id = id THEN WithoutVoice(Tail(vs), id)
    ELSE <<Head(vs)>> \o WithoutVoice(Tail(vs), id)

\* voices.map(v => v.voice_id === id ? {...v, name} : v), elevenlabs-history.tsx:414-418
Renamed(vs, id, name) ==
    [i \in 1..Len(vs) |->
        IF vs[i].voice_id = id THEN [vs[i] EXCEPT !.name = name] ELSE vs[i]]

\* prevItems.filter(item => item.history_item_id !== id), elevenlabs-history.tsx:99-101
RECURSIVE WithoutItem(_, _)
WithoutItem(items, id) ==
    IF items = <<>> THEN <<>>
    ELSE IF Head(items).history_item_id = id THEN WithoutItem(Tail(items), id)
    ELSE <<Head(items)>> \o WithoutItem(Tail(items), id)

\* [item, ...prev].slice(0, 10), part_004:349-352
PrependUncapped(item, prev) == <<item>> \o prev
PrependCapped(item, prev) ==
    LET all == <<item>> \o prev IN
    IF Len(all) <= HistoryCap THEN all ELSE SubSeq(all, 1, HistoryCap)

\* JSON.stringify of the history (158): a Date is written as its ISO text.
StringifyHistory(items) ==
    JsonArray([i \in 1..Len(items) |->
                 [items[i] EXCEPT !.timestamp = [type |-> "string", at |-> @.at]]])

\* JSON.stringify of the presets (162): texts, numbers and a boolean, each
\* written as itself.
StringifyPresets(items) ==
    JsonArray([i \in 1..Len(items) |->
                 [id |-> items[i].id, name |-> items[i].name,
                  voiceId |-> items[i].voiceId,
                  settings |->
                    [stability |-> items[i].settings.stability,
                     similarity |-> items[i].settings.similarity,
                     style |-> items[i].settings.style,
                     use_speaker_boost |-> items[i].settings.use_speaker_boost]]])

\* sourceRef.current.stop(): an audible source stops sounding and its "ended"
\* event is queued; stopping a source that already finished changes nothing.
StopSource(s) ==
    /\ playing' = playing \ {s}
    /\ endedPending' = IF s \in playing THEN endedPending \cup {s} ELSE endedPending

----------------------------------------------------------------------------
(* Construction: the first render and its mount effects. *)

Init ==
    /\ text = <<>>
    /\ isLoading = FALSE
    /\ isPlaying = FALSE
    /\ voices = <<>>
    /\ selectedVoice = NoVoice
    /\ isLoadingVoices = TRUE
    /\ audioHistory = <<>>
    /\ savedAudio = NoAudio
    /\ audioContext = FALSE
    /\ gainValue = 100
    /\ volume = InitialVolume
    /\ sourceRef = NoSource
    /\ playing = {}
    /\ endedPending = {}
    /\ synthCalls = {}
    /\ nSynth = 0
    /\ lastSettled = [id |-> NoCall, log |-> <<>>]
    \* useEffect(() => { fetchVoices() }, []): captured selectedVoice is ""
    /\ voicesCall = [pc |-> "fetching", selectedVoice |-> NoVoice]
    /\ toast = None
    /\ dialog = NoDialog
    /\ newVoiceName = <<>>
    /\ deleteVoiceId = NoVoice
    /\ isDeleting = FALSE
    /\ renameCalls = {}
    /\ nRename = 0
    /\ deleteCalls = {}
    /\ voicesWrites = <<>>
    /\ deleted = {}
    \* <Tabs defaultValue="editor">
    /\ activeTab = "editor"
    /\ historyItems = <<>>
    /\ panelLoading = FALSE
    /\ fetchCalls = {}
    /\ delItemCalls = {}
    /\ nPanelCall = 0
    /\ itemsWriter = NoCall
    /\ gatewayHistory = GatewayHistory0
    /\ isCloning = FALSE
    /\ voiceName = <<>>
    /\ selectedFile = None
    /\ recordedAudio = None
    /\ audioURL = None
    /\ recordingDuration = 0
    /\ uploadProgress = 0
    /\ isVoiceDialogOpen = FALSE
    /\ cloneCalls = {}
    /\ nClone = 0
    /\ progressTimer = FALSE
    /\ stability = InitialStability
    /\ similarity = InitialSimilarity
    /\ style = InitialStyle
    /\ speakerBoost = TRUE
    /\ isMuted = FALSE
    /\ previousVolume = InitialVolume
    /\ presets = <<>>
    /\ selectedPreset = NoPreset
    /\ isPresetDialogOpen = FALSE
    /\ presetName = <<>>
    /\ nPreset = 0
    /\ isRecording = FALSE
    /\ mediaRecorder = NoRecorder
    /\ recorders = <<>>
    /\ micCalls = {}
    /\ nMic = 0
    /\ recordingTimerRef = NoTimer
    /\ timers = {}
    /\ captured = <<>>
    \* nothing was stored: the save effects of the mount (157-163) have
    \* written the two empty collections
    /\ storedHistory = JsonArray(<<>>)
    /\ storedPresets = JsonArray(<<>>)
    /\ historyKind = "array"
    /\ presetsKind = "array"
    /\ crashed = FALSE
    /\ proxyLog = NoRequest
    /\ relayLog = NoRelay
    /\ previewPlaying = FALSE

----------------------------------------------------------------------------
(* What the page lets the user reach.  The details/rename dialog, the      *)
(* delete confirmation, the clone dialog and the Save Preset dialog are    *)
(* modal: while one is open nothing outside it takes a click.  Only the    *)
(* shown tab's content exists, and nothing exists once a render threw.     *)

Interactive ==
    /\ dialog.voiceId = NoVoice
    /\ deleteVoiceId = NoVoice
    /\ ~isVoiceDialogOpen
    /\ ~isPresetDialogOpen
    /\ ~crashed

OnEditor == activeTab = "editor" /\ Interactive
OnHistory == activeTab = "history" /\ Interactive
OnClone == activeTab = "clone"

----------------------------------------------------------------------------
(* fetchVoices, part_004:177-199 *)

restVars == <<selVars, panelVars, cloneVars>>

FetchVoicesOk ==
    /\ voicesCall.pc = "fetching"
    /\ voices' = ServerVoices
    /\ selectedVoice' =
         IF Len(ServerVoices) > 0 /\ voicesCall.selectedVoice = NoVoice
         THEN ServerVoices[1].voice_id ELSE selectedVoice
    /\ isLoadingVoices' = FALSE
    /\ voicesCall' = [voicesCall EXCEPT !.pc = "done"]
    /\ UNCHANGED <<extVars, text, isLoading, isPlaying, storeVars, audioVars, synthVars,
                   toast, restVars>>

\* The fetch rejects, the status is a failure, or the body is not JSON:
\* catch (189-195) and finally (196-198).
FetchVoicesFail ==
    /\ voicesCall.pc = "fetching"
    /\ toast' = "VoicesFailed"
    /\ isLoadingVoices' = FALSE
    /\ voicesCall' = [voicesCall EXCEPT !.pc = "done"]
    /\ UNCHANGED <<extVars, text, isLoading, isPlaying, voices, selectedVoice,
                   storeVars, audioVars, synthVars, restVars>>

----------------------------------------------------------------------------
(* The text area and its Clear and Example buttons, part_004:757-785 *)

\* The text area is disabled while loading or playing; the buttons are not.
TextAreaEnabled == ~(isLoading \/ isPlaying)

\* onClick={() => setText("")}, part_004:762
ClearText ==
    /\ OnEditor
    /\ text # <<>>
    /\ text' = <<>>
    /\ UNCHANGED <<extVars, isLoading, isPlaying, voices, selectedVoice, isLoadingVoices,
                   storeVars, audioVars, synthVars, voicesCall, toast, restVars>>

\* generateRandomText, part_004:281-289
GenerateRandomText(t) ==
    /\ OnEditor
    /\ t # text
    /\ text' = t
    /\ UNCHANGED <<extVars, isLoading, isPlaying, voices, selectedVoice, isLoadingVoices,
                   storeVars, audioVars, synthVars, voicesCall, toast, restVars>>

\* onChange of the text area, part_004:779-785
SetText(t) ==
    /\ OnEditor
    /\ TextAreaEnabled
    /\ t # text
    /\ text' = t
    /\ UNCHANGED <<extVars, isLoading, isPlaying, voices, selectedVoice, isLoadingVoices,
                   storeVars, audioVars, synthVars, voicesCall, toast, restVars>>

----------------------------------------------------------------------------
(* synthesizeSpeech, part_004:292-390 *)

\* The Generate button is rendered only while not playing, and is disabled
\* while loading, for blank text and with no voice selected, part_004:1032-1047.
GenerateEnabled ==
    /\ ~isPlaying
    /\ ~isLoading
    /\ Trim(text) # <<>>
    /\ selectedVoice # NoVoice

\* Lines 292-321: the guard, the flags, the lazy audio context, the request.
\* The call record holds what the closure captured.
SynthesizeSpeech(limit) ==
    IF Trim(text) = <<>>
    THEN /\ toast' = "EnterText"
         /\ UNCHANGED <<extVars, coreVars, storeVars, audioVars, synthVars, voicesCall,
                        restVars>>
    ELSE /\ nSynth < limit
         /\ isLoading' = TRUE
         /\ isPlaying' = TRUE
         /\ audioContext' = TRUE
         /\ nSynth' = nSynth + 1
         /\ synthCalls' = synthCalls \cup
              {[id |-> nSynth + 1, pc |-> "fetching", text |-> text,
                voiceId |-> selectedVoice, voices |-> voices,
                volume |-> volume, log |-> <<>>]}
         /\ UNCHANGED <<extVars, text, voices, selectedVoice, isLoadingVoices, storeVars,
                        gainValue, volume, sourceRef, playing, endedPending,
                        lastSettled, voicesCall, toast, restVars>>

ClickGenerate ==
    /\ OnEditor
    /\ GenerateEnabled
    /\ SynthesizeSpeech(MaxSynth)

ClickGenerateLong ==
    /\ OnEditor
    /\ GenerateEnabled
    /\ SynthesizeSpeech(MaxSynthLong)

ClickGenerateFew ==
    /\ OnEditor
    /\ GenerateEnabled
    /\ SynthesizeSpeech(MaxSynthFew)

ClickGenerateOnce ==
    /\ OnEditor
    /\ GenerateEnabled
    /\ SynthesizeSpeech(MaxSynthOne)

\* The handler called as a function, whatever the button shows.
InvokeSynthesize == SynthesizeSpeech(MaxSynthFew)

\* catch (377-386) and finally (387-389)
SynthSettleUnreset(c) ==
    /\ toast' = "SynthFailed"
    /\ isPlaying' = FALSE
    /\ isLoading' = isLoading
    /\ synthCalls' = synthCalls \ {c}
    /\ lastSettled' = [id |-> c.id, log |-> c.log]
SynthSettleFailed(c) ==
    /\ toast' = "SynthFailed"
    /\ isPlaying' = FALSE
    /\ isLoading' = FALSE
    /\ synthCalls' = synthCalls \ {c}
    /\ lastSettled' = [id |-> c.id, log |-> c.log]

\* The history entry of call c, lines 339-347; its timestamp is a Date.
HistoryItemLive(c) ==
    [id |-> c.id, text |-> text, voiceId |-> selectedVoice,
     voiceName |-> VoiceNameOf(voices, selectedVoice),
     timestamp |-> [type |-> "Date", at |-> c.id],
     duration |-> EstimatedDuration(text)]
HistoryItemOf(c) ==
    [id |-> c.id, text |-> c.text, voiceId |-> c.voiceId,
     voiceName |-> VoiceNameOf(c.voices, c.voiceId),
     timestamp |-> [type |-> "Date", at |-> c.id],
     duration |-> EstimatedDuration(c.text)]

\* The fetch rejects, or answers a failure status (308-325), or the body
\* cannot be read (327).
SynthResponseFailed(c) ==
    /\ c \in synthCalls /\ c.pc = "fetching"
    /\ SynthSettleFailed(c)
    /\ UNCHANGED <<extVars, text, voices, selectedVoice, isLoadingVoices, storeVars,
                   audioVars, nSynth, voicesCall, restVars>>

\* Lines 330-336 and 349-352: the artifact slot and the history.  The
\* updater spreads the previous value, which throws in the next render when
\* that value is not iterable; the save effect (157-159) follows the render
\* that shows the new history.
RecordOnlyArtifact(c) ==
    /\ savedAudio' = [call |-> c.id, text |-> c.text, voiceId |-> c.voiceId]
    /\ audioHistory' = audioHistory
    /\ UNCHANGED lsVars
RecordResult(c) ==
    /\ savedAudio' = [call |-> c.id, text |-> c.text, voiceId |-> c.voiceId]
    /\ IF historyKind = "array"
       THEN /\ audioHistory' = PrependCapped(HistoryItemOf(c), audioHistory)
            /\ storedHistory' = StringifyHistory(audioHistory')
            /\ crashed' = crashed
       ELSE /\ crashed' = TRUE
            /\ UNCHANGED <<audioHistory, storedHistory>>
    /\ UNCHANGED <<storedPresets, historyKind, presetsKind>>

\* Lines 327-361: the artifact, the history entry, the old source stopped
\* and disconnected (the ref keeps pointing at it), then the decode awaited.
SynthResponseOk(c) ==
    /\ c \in synthCalls /\ c.pc = "fetching"
    /\ RecordResult(c)
    /\ IF sourceRef # NoSource
       THEN StopSource(sourceRef)
       ELSE UNCHANGED <<playing, endedPending>>
    /\ synthCalls' = (synthCalls \ {c}) \cup
          {[c EXCEPT !.pc = "decoding", !.log = <<"artifact", "history">>]}
    /\ UNCHANGED <<settingVars, presetVars, recVars, proxyLog, relayLog, previewPlaying, coreVars,
                   audioContext, gainValue, volume, sourceRef, nSynth,
                   lastSettled, voicesCall, toast, restVars>>

\* decodeAudioData rejects (361), or creating and starting the source throws
\* (362-368): catch and finally.
DecodeFailed(c) ==
    /\ c \in synthCalls /\ c.pc = "decoding"
    /\ SynthSettleFailed(c)
    /\ UNCHANGED <<extVars, text, voices, selectedVoice, isLoadingVoices, storeVars,
                   audioVars, nSynth, voicesCall, restVars>>

\* Lines 362-374 and the finally: the new source is attached and started.
DecodeOk(c) ==
    /\ c \in synthCalls /\ c.pc = "decoding"
    /\ sourceRef' = c.id
    /\ gainValue' = c.volume
    /\ playing' = playing \cup {c.id}
    /\ toast' = "SynthOk"
    /\ isLoading' = FALSE
    /\ synthCalls' = synthCalls \ {c}
    /\ lastSettled' = [id |-> c.id, log |-> Append(c.log, "play")]
    /\ UNCHANGED <<extVars, text, isPlaying, voices, selectedVoice, isLoadingVoices,
                   storeVars, audioContext, volume, endedPending, nSynth,
                   voicesCall, restVars>>

----------------------------------------------------------------------------
(* stopSpeech, part_004:393-400; the Stop button, part_004:1032-1040 *)

StopEnabled == isPlaying /\ ~isLoading

StopSpeech ==
    /\ IF sourceRef # NoSource
       THEN StopSource(sourceRef) /\ sourceRef' = NoSource
       ELSE UNCHANGED <<sourceRef, playing, endedPending>>
    /\ isPlaying' = FALSE
    /\ UNCHANGED <<extVars, text, isLoading, voices, selectedVoice, isLoadingVoices,
                   storeVars, audioContext, gainValue, volume, synthVars,
                   voicesCall, toast, restVars>>

ClickStop ==
    /\ OnEditor
    /\ StopEnabled
    /\ StopSpeech

----------------------------------------------------------------------------
(* The buffer source reaches its end, and the "ended" event of a source    *)
(* that ended or was stopped is dispatched: source.onended, part_004:369-372 *)

NaturalEnd(s) ==
    /\ s \in playing
    /\ StopSource(s)
    /\ UNCHANGED <<extVars, coreVars, storeVars, audioContext, gainValue, volume,
                   sourceRef, synthVars, voicesCall, toast, restVars>>

OnEnded(s) ==
    /\ s \in endedPending
    /\ endedPending' = endedPending \ {s}
    /\ isPlaying' = FALSE
    /\ sourceRef' = NoSource
    /\ UNCHANGED <<extVars, text, isLoading, voices, selectedVoice, isLoadingVoices,
                   storeVars, audioContext, gainValue, volume, playing,
                   synthVars, voicesCall, toast, restVars>>

----------------------------------------------------------------------------
(* EnhancedVoiceSelector, elevenlabs-history.tsx:340-784 *)

\* The selector and the voice cards are rendered once the voices are loaded
\* and at least one cloned voice exists (580-586).
SelectorShown == ~isLoadingVoices /\ ClonedIds(voices) # {}

\* isDisabled={isLoading || isPlaying}, part_004:803
SelectorDisabled == isLoading \/ isPlaying

edVars == <<storeVars, audioVars, synthVars, voicesCall, panelVars, cloneVars>>

\* handleVoiceChange (part_004:611-615) from a voice card's Use button
\* (492-502), which isDisabled does not gate.
VoiceChange(id) ==
    /\ OnEditor
    /\ SelectorShown
    /\ id \in ClonedIds(voices)
    /\ id # selectedVoice
    /\ selectedVoice' = id
    /\ UNCHANGED <<extVars, text, isLoading, isPlaying, voices, isLoadingVoices,
                   toast, selVars, edVars>>

\* View on a cloned voice's card (480-491), or the eye button for the
\* selected voice (562-575).
OpenDetails(id) ==
    /\ OnEditor
    /\ SelectorShown
    /\ \/ id \in ClonedIds(voices)
       \/ id = selectedVoice /\ id # NoVoice /\ ~SelectorDisabled
    /\ dialog' = [type |-> "details", voiceId |-> id]
    /\ UNCHANGED <<extVars, coreVars, toast, edVars, newVoiceName, deleteVoiceId,
                   isDeleting, renameCalls, nRename, deleteCalls,
                   voicesWrites, deleted>>

\* onOpenChange of the details/rename dialog (626-630)
CloseDialog ==
    /\ dialog.voiceId # NoVoice
    /\ dialog' = NoDialog
    /\ UNCHANGED <<extVars, coreVars, toast, edVars, newVoiceName, deleteVoiceId,
                   isDeleting, renameCalls, nRename, deleteCalls,
                   voicesWrites, deleted>>

\* The Rename button of the details view (651-664)
StartRename ==
    /\ dialog.voiceId # NoVoice /\ dialog.type = "details"
    /\ newVoiceName' =
         IF FindVoice(voices, dialog.voiceId) = 0 THEN <<>>
         ELSE voices[FindVoice(voices, dialog.voiceId)].name
    /\ dialog' = [dialog EXCEPT !.type = "rename"]
    /\ UNCHANGED <<extVars, coreVars, toast, edVars, deleteVoiceId, isDeleting,
                   renameCalls, nRename, deleteCalls, voicesWrites, deleted>>

\* The rename input (714-719)
TypeNewName(n) ==
    /\ dialog.voiceId # NoVoice /\ dialog.type = "rename"
    /\ n # newVoiceName
    /\ newVoiceName' = n
    /\ UNCHANGED <<extVars, coreVars, toast, edVars, dialog, deleteVoiceId, isDeleting,
                   renameCalls, nRename, deleteCalls, voicesWrites, deleted>>

\* handleRename up to its await (397-407); the call record holds the voices
\* prop of the render whose handler was clicked.
HandleRename(limit) ==
    IF dialog.voiceId = NoVoice \/ Trim(newVoiceName) = <<>>
    THEN UNCHANGED vars
    ELSE /\ nRename < limit
         /\ nRename' = nRename + 1
         /\ renameCalls' = renameCalls \cup
              {[id |-> nRename + 1, voiceId |-> dialog.voiceId,
                name |-> newVoiceName, voices |-> voices]}
         /\ UNCHANGED <<extVars, coreVars, toast, edVars, dialog, newVoiceName,
                        deleteVoiceId, isDeleting, deleteCalls, voicesWrites,
                        deleted>>

\* The Save button is rendered in the rename view and disabled for a blank
\* name (730-736); it stays enabled while a rename is in flight.
SaveEnabled ==
    /\ dialog.voiceId # NoVoice /\ dialog.type = "rename"
    /\ Trim(newVoiceName) # <<>>

ClickSave ==
    /\ SaveEnabled
    /\ HandleRename(MaxRename)

\* handleRename after the await, success (413-430): onVoicesUpdated is
\* handleVoicesUpdated (part_004:422-424), which replaces voices.
RenameOk(c) ==
    /\ c \in renameCalls
    /\ voices' = Renamed(c.voices, c.voiceId, c.name)
    /\ voicesWrites' = Append(voicesWrites, c.id)
    /\ toast' = "RenameOk"
    /\ dialog' = NoDialog
    /\ newVoiceName' = <<>>
    /\ renameCalls' = renameCalls \ {c}
    /\ UNCHANGED <<extVars, text, isLoading, isPlaying, selectedVoice, isLoadingVoices,
                   edVars, deleteVoiceId, isDeleting, nRename, deleteCalls,
                   deleted>>

\* handleRename after the await, failure (409-411, 431-438)
RenameFailed(c) ==
    /\ c \in renameCalls
    /\ toast' = "RenameFailed"
    /\ renameCalls' = renameCalls \ {c}
    /\ UNCHANGED <<extVars, coreVars, edVars, dialog, newVoiceName, deleteVoiceId,
                   isDeleting, nRename, deleteCalls, voicesWrites, deleted>>

\* The Delete Voice button of the details view (697-706)
ClickDeleteVoice ==
    /\ dialog.voiceId # NoVoice /\ dialog.type = "details"
    /\ deleteVoiceId' = dialog.voiceId
    /\ dialog' = NoDialog
    /\ UNCHANGED <<extVars, coreVars, toast, edVars, newVoiceName, isDeleting,
                   renameCalls, nRename, deleteCalls, voicesWrites, deleted>>

\* The confirmation dialog's onOpenChange (745-748); Cancel is disabled
\* while deleting (759-764).
CancelDelete ==
    /\ deleteVoiceId # NoVoice /\ ~isDeleting
    /\ deleteVoiceId' = NoVoice
    /\ UNCHANGED <<extVars, coreVars, toast, edVars, dialog, newVoiceName, isDeleting,
                   renameCalls, nRename, deleteCalls, voicesWrites, deleted>>

\* handleDelete (385-390) calling handleDeleteVoice (part_004:579-583) up to
\* its await.  The confirm button is an AlertDialogAction: its click also
\* closes the dialog, whose onOpenChange (747) clears deleteVoiceId.  The
\* call record holds the voices and selectedVoice the closure captured.
HandleDelete ==
    IF deleteVoiceId = NoVoice
    THEN UNCHANGED vars
    ELSE /\ isDeleting' = TRUE
         /\ deleteCalls' = deleteCalls \cup
              {[voiceId |-> deleteVoiceId, voices |-> voices,
                selectedVoice |-> selectedVoice]}
         /\ deleteVoiceId' = NoVoice
         /\ UNCHANGED <<extVars, coreVars, toast, edVars, dialog, newVoiceName,
                        renameCalls, nRename, voicesWrites, deleted>>

\* The confirm button is disabled while deleting (765-769).
ConfirmDelete ==
    /\ deleteVoiceId # NoVoice /\ ~isDeleting
    /\ HandleDelete

\* if (selectedVoice === voiceId) setSelectedVoice(""), part_004:592-595,
\* with the selectedVoice of the closure.
SelectionAfterDelete(c) ==
    IF c.selectedVoice = c.voiceId THEN NoVoice ELSE selectedVoice

\* handleDeleteVoice after the await, success (589-600), then handleDelete's
\* setDeleteVoiceId(null) and finally (390-394)
DeleteOk(c) ==
    /\ c \in deleteCalls
    /\ voices' = WithoutVoice(c.voices, c.voiceId)
    /\ selectedVoice' = SelectionAfterDelete(c)
    /\ deleted' = deleted \cup {c.voiceId}
    /\ toast' = "DeleteOk"
    /\ isDeleting' = FALSE
    /\ deleteVoiceId' = NoVoice
    /\ deleteCalls' = deleteCalls \ {c}
    /\ UNCHANGED <<extVars, text, isLoading, isPlaying, isLoadingVoices, edVars,
                   dialog, newVoiceName, renameCalls, nRename, voicesWrites>>

\* handleDeleteVoice after the await, failure (585-587, 601-608), then
\* handleDelete's setDeleteVoiceId(null) and finally
DeleteFailed(c) ==
    /\ c \in deleteCalls
    /\ toast' = "DeleteFailed"
    /\ isDeleting' = FALSE
    /\ deleteVoiceId' = NoVoice
    /\ deleteCalls' = deleteCalls \ {c}
    /\ UNCHANGED <<extVars, coreVars, edVars, dialog, newVoiceName, renameCalls,
                   nRename, voicesWrites, deleted>>

----------------------------------------------------------------------------
(* The tabs, part_004:717-742, 1064-1077.  The content of a tab that is    *)
(* not shown is unmounted: the selector's and the history panel's own      *)
(* state is discarded, and a completion that arrives for an unmounted      *)
(* component no longer writes its state (the call is marked orphan).       *)

Tabs == { "editor", "history", "clone" }

Orphaned(calls) == { [c EXCEPT !.orphan = TRUE] : c \in calls }

\* fetchHistory up to its await, elevenlabs-history.tsx:52-55
FetchHistory ==
    /\ panelLoading' = TRUE
    /\ nPanelCall' = nPanelCall + 1
    /\ fetchCalls' = fetchCalls \cup
         {[id |-> nPanelCall + 1, pc |-> "sent", data |-> <<>>, orphan |-> FALSE]}

\* A click on a tab trigger; entering the History tab mounts the panel,
\* whose effect calls fetchHistory (elevenlabs-history.tsx:73-75).
SwitchTab(t) ==
    /\ Interactive
    /\ t # activeTab
    /\ t = "history" => nPanelCall < MaxPanelCalls
    /\ activeTab' = t
    /\ IF activeTab = "editor"
       THEN newVoiceName' = <<>> /\ isDeleting' = FALSE
       ELSE UNCHANGED <<newVoiceName, isDeleting>>
    /\ IF t = "history"
       THEN FetchHistory /\ UNCHANGED <<historyItems, delItemCalls>>
       ELSE IF activeTab = "history"
       THEN /\ panelLoading' = FALSE
            /\ historyItems' = <<>>
            /\ fetchCalls' = Orphaned(fetchCalls)
            /\ delItemCalls' = Orphaned(delItemCalls)
            /\ UNCHANGED nPanelCall
       ELSE UNCHANGED <<historyItems, panelLoading, fetchCalls, delItemCalls,
                        nPanelCall>>
    /\ UNCHANGED <<extVars, coreVars, storeVars, audioVars, synthVars, voicesCall, toast,
                   dialog, deleteVoiceId, renameCalls, nRename, deleteCalls,
                   voicesWrites, deleted, itemsWriter, gatewayHistory, cloneVars>>

----------------------------------------------------------------------------
(* HistoryComponent, elevenlabs-history.tsx:44-278 *)

mainVars == <<coreVars, storeVars, audioVars, synthVars, voicesCall, selVars,
              cloneVars>>

\* The Refresh button, disabled while loading (158-169)
ClickRefresh ==
    /\ OnHistory
    /\ ~panelLoading
    /\ nPanelCall < MaxPanelCalls
    /\ FetchHistory
    /\ UNCHANGED <<extVars, mainVars, toast, activeTab, historyItems, delItemCalls,
                   itemsWriter, gatewayHistory>>

\* GET /api/history is answered with what the Gateway holds at that moment
\* (src/src/app/api/history/route.ts:4-18).
GatewayAnswersHistory(c) ==
    /\ c \in fetchCalls /\ c.pc = "sent"
    /\ fetchCalls' = (fetchCalls \ {c}) \cup
         {[c EXCEPT !.pc = "answered", !.data = gatewayHistory]}
    /\ UNCHANGED <<extVars, mainVars, toast, activeTab, historyItems, panelLoading,
                   delItemCalls, nPanelCall, itemsWriter, gatewayHistory>>

\* fetchHistory after its awaits, success (59-60) and finally (68-70)
FetchHistoryOk(c) ==
    /\ c \in fetchCalls /\ c.pc = "answered"
    /\ fetchCalls' = fetchCalls \ {c}
    /\ IF c.orphan
       THEN UNCHANGED <<historyItems, panelLoading, itemsWriter>>
       ELSE /\ historyItems' = c.data
            /\ itemsWriter' = c.id
            /\ panelLoading' = FALSE
    /\ UNCHANGED <<extVars, mainVars, toast, activeTab, delItemCalls, nPanelCall,
                   gatewayHistory>>

\* The fetch rejects, the status is a failure (56-58) or the body is not
\* JSON (59): catch (61-67) and finally (68-70).
FetchHistoryUnreset(c) ==
    /\ c \in fetchCalls
    /\ fetchCalls' = fetchCalls \ {c}
    /\ IF c.orphan
       THEN UNCHANGED <<toast, panelLoading>>
       ELSE toast' = "HistoryFailed" /\ panelLoading' = panelLoading
    /\ UNCHANGED <<extVars, mainVars, activeTab, historyItems, delItemCalls, nPanelCall,
                   itemsWriter, gatewayHistory>>
FetchHistoryClearing(c) ==
    /\ c \in fetchCalls
    /\ fetchCalls' = fetchCalls \ {c}
    /\ IF c.orphan
       THEN UNCHANGED <<toast, panelLoading, historyItems>>
       ELSE toast' = "HistoryFailed" /\ panelLoading' = FALSE
            /\ historyItems' = <<>>
    /\ UNCHANGED <<extVars, mainVars, activeTab, delItemCalls, nPanelCall,
                   itemsWriter, gatewayHistory>>
FetchHistoryFail(c) ==
    /\ c \in fetchCalls
    /\ fetchCalls' = fetchCalls \ {c}
    /\ IF c.orphan
       THEN UNCHANGED <<toast, panelLoading>>
       ELSE toast' = "HistoryFailed" /\ panelLoading' = FALSE
    /\ UNCHANGED <<extVars, mainVars, activeTab, historyItems, delItemCalls, nPanelCall,
                   itemsWriter, gatewayHistory>>

\* The list is rendered while not loading (173-275).  An item's recall
\* button (236-246) calls onSelectText, part_004:1067-1070.
SelectHistoryItem(i) ==
    /\ OnHistory
    /\ ~panelLoading
    /\ i \in 1..Len(historyItems)
    /\ text' = historyItems[i].text
    /\ selectedVoice' = historyItems[i].voice_id
    /\ UNCHANGED <<extVars, isLoading, isPlaying, voices, isLoadingVoices, storeVars,
                   audioVars, synthVars, voicesCall, toast, selVars, panelVars,
                   cloneVars>>

\* An item's delete button (247-257): handleDeleteHistoryItem up to its
\* await (89-93)
DeleteHistoryItem(i) ==
    /\ OnHistory
    /\ ~panelLoading
    /\ i \in 1..Len(historyItems)
    /\ nPanelCall < MaxPanelCalls
    /\ nPanelCall' = nPanelCall + 1
    /\ delItemCalls' = delItemCalls \cup
         {[id |-> nPanelCall + 1, item |-> historyItems[i].history_item_id,
           orphan |-> FALSE]}
    /\ UNCHANGED <<extVars, mainVars, toast, activeTab, historyItems, panelLoading,
                   fetchCalls, itemsWriter, gatewayHistory>>

\* The Gateway deletes the item and handleDeleteHistoryItem filters the
\* live list (95-106).
DeleteHistoryItemOk(c) ==
    /\ c \in delItemCalls
    /\ delItemCalls' = delItemCalls \ {c}
    /\ gatewayHistory' = WithoutItem(gatewayHistory, c.item)
    /\ IF c.orphan
       THEN UNCHANGED <<historyItems, itemsWriter, toast>>
       ELSE /\ historyItems' = WithoutItem(historyItems, c.item)
            /\ itemsWriter' = c.id
            /\ toast' = "ItemDeleted"
    /\ UNCHANGED <<extVars, mainVars, activeTab, panelLoading, fetchCalls, nPanelCall>>

\* handleDeleteHistoryItem's catch (107-114)
DeleteHistoryItemFailed(c) ==
    /\ c \in delItemCalls
    /\ delItemCalls' = delItemCalls \ {c}
    /\ toast' = IF c.orphan THEN toast ELSE "ItemDeleteFailed"
    /\ UNCHANGED <<extVars, mainVars, activeTab, historyItems, panelLoading, fetchCalls,
                   nPanelCall, itemsWriter, gatewayHistory>>

----------------------------------------------------------------------------
(* Voice cloning: the dialog (part_004:1143-1305), resetRecording          *)
(* (482-490) and handleVoiceCloning (494-577)                              *)

appVars == <<storeVars, audioVars, synthVars, voicesCall, selVars, panelVars>>

\* The Upload Sample trigger (1147-1152) and the dialog's onOpenChange
OpenCloneDialog ==
    /\ OnClone /\ Interactive
    /\ isVoiceDialogOpen' = TRUE
    /\ UNCHANGED <<extVars, coreVars, toast, appVars, isCloning, voiceName, selectedFile,
                   recordedAudio, audioURL, recordingDuration, uploadProgress,
                   cloneCalls, nClone, progressTimer>>

CloseCloneDialog ==
    /\ isVoiceDialogOpen
    /\ isVoiceDialogOpen' = FALSE
    /\ previewPlaying' = FALSE
    /\ UNCHANGED <<extRest, coreVars, toast, appVars, isCloning, voiceName, selectedFile,
                   recordedAudio, audioURL, recordingDuration, uploadProgress,
                   cloneCalls, nClone, progressTimer>>

\* The name input (1182-1191)
TypeVoiceName(n) ==
    /\ isVoiceDialogOpen
    /\ n # voiceName
    /\ voiceName' = n
    /\ UNCHANGED <<extVars, coreVars, toast, appVars, isCloning, selectedFile,
                   recordedAudio, audioURL, recordingDuration, uploadProgress,
                   isVoiceDialogOpen, cloneCalls, nClone, progressTimer>>

\* resetRecording, part_004:482-490
ResetRecording ==
    /\ recordedAudio' = None
    /\ audioURL' = None
    /\ recordingDuration' = 0
    /\ previewPlaying' = FALSE
    /\ isPlaying' = FALSE

\* The file input's onChange (1229-1244)
ChooseFile ==
    /\ isVoiceDialogOpen
    /\ selectedFile' = "file"
    /\ ResetRecording
    /\ UNCHANGED <<extRest, text, isLoading, voices, selectedVoice, isLoadingVoices,
                   toast, appVars, isCloning, voiceName, uploadProgress,
                   isVoiceDialogOpen, cloneCalls, nClone, progressTimer>>

\* The submit button (1286-1292) and the form's onSubmit (1163-1176)
SubmitEnabled ==
    /\ ~isCloning
    /\ voiceName # <<>>
    /\ selectedFile # None \/ recordedAudio # None

\* handleVoiceCloning up to its await (494-526)
HandleVoiceCloning ==
    /\ nClone < MaxClone
    /\ isCloning' = TRUE
    /\ uploadProgress' = 0
    /\ progressTimer' = TRUE
    /\ nClone' = nClone + 1
    /\ cloneCalls' = cloneCalls \cup
         {[id |-> nClone + 1, name |-> voiceName,
           sample |-> IF selectedFile # None THEN selectedFile ELSE recordedAudio]}
    /\ UNCHANGED <<extVars, coreVars, toast, appVars, voiceName, selectedFile,
                   recordedAudio, audioURL, recordingDuration,
                   isVoiceDialogOpen>>

SubmitClone ==
    /\ isVoiceDialogOpen
    /\ SubmitEnabled
    /\ HandleVoiceCloning

\* The form's onSubmit (1163-1176), called whatever the button shows
FormNamed == voiceName # <<>>
FormComplete ==
    /\ voiceName # <<>>
    /\ selectedFile # None \/ recordedAudio # None

CloneFormSubmit ==
    /\ isVoiceDialogOpen
    /\ IF FormComplete THEN HandleVoiceCloning ELSE UNCHANGED vars

\* finally (570-576)
CloneCleanup ==
    /\ isCloning' = FALSE
    /\ selectedFile' = None
    /\ voiceName' = <<>>
    /\ uploadProgress' = 0
    /\ ResetRecording

\* POST /api/clone-voice (part_002:4-66) for a request with this many files
\* and this name, when the Gateway answers g: the status and the voice_id
\* of its answer, and whether it called the Gateway.
GatewayCloneAnswers(id) ==
    { [kind |-> "ok", voice_id |-> id], [kind |-> "ok", voice_id |-> ""],
      [kind |-> "refused", voice_id |-> ""],
      [kind |-> "unreachable", voice_id |-> ""] }

ProxyCloneVoiceTrusting(files, name, g) ==
    IF files = 0 \/ name = <<>>
    THEN [status |-> 400, voice_id |-> "", gateway |-> FALSE]
    ELSE IF g.kind = "refused"
    THEN [status |-> 422, voice_id |-> "", gateway |-> TRUE]
    ELSE IF g.kind = "unreachable"
    THEN [status |-> 500, voice_id |-> "", gateway |-> TRUE]
    ELSE [status |-> 200, voice_id |-> g.voice_id, gateway |-> TRUE]
ProxyCloneVoice(files, name, g) ==
    IF files = 0 \/ name = <<>>
    THEN [status |-> 400, voice_id |-> "", gateway |-> FALSE]
    ELSE IF g.kind = "refused"
    THEN [status |-> 422, voice_id |-> "", gateway |-> TRUE]
    ELSE IF g.kind = "unreachable" \/ g.voice_id = ""
    THEN [status |-> 500, voice_id |-> "", gateway |-> TRUE]
    ELSE [status |-> 200, voice_id |-> g.voice_id, gateway |-> TRUE]

\* A request to the route from any HTTP client.
DirectPost(files, name, g) ==
    /\ proxyLog' = [files |-> files, name |-> name, answer |-> g.kind,
                    answered_id |-> g.voice_id,
                    reply |-> ProxyCloneVoice(files, name, g)]
    /\ UNCHANGED <<coreVars, storeVars, audioVars, synthVars, voicesCall,
                   toast, restVars, settingVars, presetVars, recVars, lsVars,
                   relayLog, previewPlaying>>

\* What reaches handleVoiceCloning: the route's answers to its request,
\* a fetch that rejects, or what any server could answer.
Rejected == [status |-> 0, voice_id |-> "", gateway |-> FALSE]

CloneResponses(c) ==
    { ProxyCloneVoice(1, c.name, g) : g \in GatewayCloneAnswers(NewVoiceIds[c.id]) }
      \cup { Rejected }

AnyResponses(c) ==
    { [status |-> s, voice_id |-> v, gateway |-> TRUE] :
        s \in { 200, 500 }, v \in { "", NewVoiceIds[c.id] } } \cup { Rejected }

\* How handleVoiceCloning reads a response (531-539).
CloneFailKinds == { "network", "status", "malformed" }

ClientReadsTrusting(r) ==
    IF r = Rejected THEN "network"
    ELSE IF r.status # 200 THEN "status"
    ELSE "ok"
ClientReads(r) ==
    IF r = Rejected THEN "network"
    ELSE IF r.status # 200 THEN "status"
    ELSE IF r.voice_id = "" THEN "malformed"
    ELSE "ok"

\* handleVoiceCloning after its awaits, for the response r: success
\* (528-557) or catch (558-569), then finally (570-576).  When the fetch
\* rejects, the interval, held by the inner const of line 519, is not
\* cleared by the catch, which reads the outer one of line 495.
CloneSettleWith(c, r) ==
    /\ c \in cloneCalls
    /\ cloneCalls' = cloneCalls \ {c}
    /\ progressTimer' = (ClientReads(r) = "network" /\ progressTimer)
    /\ IF ClientReads(r) = "ok"
       THEN /\ voices' = Append(voices, [voice_id |-> r.voice_id,
                                         name |-> c.name,
                                         category |-> "custom"])
            /\ selectedVoice' = r.voice_id
            /\ toast' = "CloneOk"
            /\ isVoiceDialogOpen' = FALSE
       ELSE /\ toast' = "CloneFailed"
            /\ UNCHANGED <<voices, selectedVoice, isVoiceDialogOpen>>
    /\ CloneCleanup
    /\ UNCHANGED <<extRest, text, isLoading, isLoadingVoices, appVars, nClone>>

CloneOk(c) ==
    \E r \in CloneResponses(c) : ClientReads(r) = "ok" /\ CloneSettleWith(c, r)

CloneFailed(c, kind) ==
    \E r \in CloneResponses(c) : ClientReads(r) = kind /\ CloneSettleWith(c, r)

\* The fetch answered by any server.
CloneAnswered(c) == \E r \in AnyResponses(c) : CloneSettleWith(c, r)
----------------------------------------------------------------------------
(* Volume and mute (part_004:205-224, 925-958), the voice settings         *)
(* (846-918) and the presets (227-265, 806-830, 960-1010, 1085-1115)       *)

\* handleVolumeChange, part_004:207-213; the slider is disabled while a
\* synthesis is loading (952)
HandleVolumeChange(v) ==
    /\ OnEditor
    /\ ~isLoading
    /\ v # volume
    /\ volume' = v
    /\ gainValue' = IF audioContext THEN v ELSE gainValue
    /\ UNCHANGED <<coreVars, storeVars, audioContext, sourceRef, playing,
                   endedPending, synthVars, voicesCall, toast, restVars,
                   settingVars, presetVars, recVars, lsVars, proxyLog, relayLog, previewPlaying>>

\* handleMuteToggle, part_004:215-224
MuteForgetful ==
    IF isMuted
    THEN volume' = previousVolume /\ isMuted' = FALSE
         /\ UNCHANGED previousVolume
    ELSE previousVolume' = previousVolume /\ volume' = 0 /\ isMuted' = TRUE
HandleMuteToggle ==
    IF isMuted
    THEN volume' = previousVolume /\ isMuted' = FALSE
         /\ UNCHANGED previousVolume
    ELSE previousVolume' = volume /\ volume' = 0 /\ isMuted' = TRUE

\* The mute button, part_004:931-942
ClickMute ==
    /\ OnEditor
    /\ HandleMuteToggle
    /\ UNCHANGED <<coreVars, storeVars, audioContext, gainValue, sourceRef,
                   playing, endedPending, synthVars, voicesCall, toast,
                   restVars, stability, similarity, style, speakerBoost,
                   presetVars, recVars, lsVars, proxyLog, relayLog, previewPlaying>>

\* The sliders and the switch, part_004:846-852, 869-875, 894-900, 916-919
SetStability(v) ==
    /\ OnEditor
    /\ v # stability
    /\ stability' = v
    /\ UNCHANGED <<coreVars, storeVars, audioVars, synthVars, voicesCall,
                   toast, restVars, similarity, style, speakerBoost, isMuted,
                   previousVolume, presetVars, recVars, lsVars, proxyLog, relayLog, previewPlaying>>

SetSimilarity(v) ==
    /\ OnEditor
    /\ v # similarity
    /\ similarity' = v
    /\ UNCHANGED <<coreVars, storeVars, audioVars, synthVars, voicesCall,
                   toast, restVars, stability, style, speakerBoost, isMuted,
                   previousVolume, presetVars, recVars, lsVars, proxyLog, relayLog, previewPlaying>>

SetStyle(v) ==
    /\ OnEditor
    /\ v # style
    /\ style' = v
    /\ UNCHANGED <<coreVars, storeVars, audioVars, synthVars, voicesCall,
                   toast, restVars, stability, similarity, speakerBoost,
                   isMuted, previousVolume, presetVars, recVars, lsVars,
                   proxyLog, relayLog, previewPlaying>>

SetSpeakerBoost(b) ==
    /\ OnEditor
    /\ b # speakerBoost
    /\ speakerBoost' = b
    /\ UNCHANGED <<coreVars, storeVars, audioVars, synthVars, voicesCall,
                   toast, restVars, stability, similarity, style, isMuted,
                   previousVolume, presetVars, recVars, lsVars, proxyLog, relayLog, previewPlaying>>

\* resetSettings, part_004:268-277 (speed and pitch are sent nowhere)
ResetSettings ==
    /\ OnEditor
    /\ stability' = ResetStability
    /\ similarity' = ResetSimilarity
    /\ selectedPreset' = NoPreset
    /\ toast' = "SettingsReset"
    /\ UNCHANGED <<coreVars, storeVars, audioVars, synthVars, voicesCall,
                   restVars, style, speakerBoost, isMuted, previousVolume,
                   presets, isPresetDialogOpen, presetName, nPreset, recVars,
                   lsVars, proxyLog, relayLog, previewPlaying>>

\* The Save Preset dialog: its trigger and onOpenChange (963-971), its
\* input (989-997)
OpenPresetDialog ==
    /\ OnEditor
    /\ isPresetDialogOpen' = TRUE
    /\ UNCHANGED <<coreVars, storeVars, audioVars, synthVars, voicesCall,
                   toast, restVars, settingVars, presets, selectedPreset,
                   presetName, nPreset, recVars, lsVars, proxyLog, relayLog, previewPlaying>>

ClosePresetDialog ==
    /\ isPresetDialogOpen
    /\ isPresetDialogOpen' = FALSE
    /\ UNCHANGED <<coreVars, storeVars, audioVars, synthVars, voicesCall,
                   toast, restVars, settingVars, presets, selectedPreset,
                   presetName, nPreset, recVars, lsVars, proxyLog, relayLog, previewPlaying>>

TypePresetName(n) ==
    /\ isPresetDialogOpen
    /\ n # presetName
    /\ presetName' = n
    /\ UNCHANGED <<coreVars, storeVars, audioVars, synthVars, voicesCall,
                   toast, restVars, settingVars, presets, selectedPreset,
                   isPresetDialogOpen, nPreset, recVars, lsVars, proxyLog, relayLog, previewPlaying>>

\* The preset handleSavePreset builds, part_004:230-239.  The id is the
\* text of Date.now(); time has moved on since the preset before.
NewPresetDefaults(name) ==
    [id |-> nPreset + 1, name |-> name, voiceId |-> selectedVoice,
     settings |-> [stability |-> InitialStability,
                   similarity |-> InitialSimilarity,
                   style |-> InitialStyle, use_speaker_boost |-> TRUE]]
NewPreset(name) ==
    [id |-> nPreset + 1, name |-> name, voiceId |-> selectedVoice,
     settings |-> [stability |-> stability, similarity |-> similarity,
                   style |-> style, use_speaker_boost |-> speakerBoost]]

\* handleSavePreset, part_004:227-248, with the save effect of 161-163
HandleSavePreset(name) ==
    IF Trim(name) = <<>>
    THEN UNCHANGED vars
    ELSE /\ nPreset < MaxPresets
         /\ presets' = Append(presets, NewPreset(name))
         /\ storedPresets' = StringifyPresets(presets')
         /\ nPreset' = nPreset + 1
         /\ toast' = "PresetSaved"
         /\ isPresetDialogOpen' = FALSE
         /\ presetName' = <<>>
         /\ UNCHANGED <<coreVars, storeVars, audioVars, synthVars, voicesCall,
                        restVars, settingVars, selectedPreset, recVars,
                        storedHistory, historyKind, presetsKind, crashed,
                        proxyLog, relayLog, previewPlaying>>

\* The dialog's form (981-985) behind its submit button (1000-1004)
ClickSavePreset ==
    /\ isPresetDialogOpen
    /\ Trim(presetName) # <<>>
    /\ HandleSavePreset(presetName)

\* presets.find(p => p.id === presetId), part_004:252
FindPreset(ps, presetId) ==
    LET hits == { i \in 1..Len(ps) : ps[i].id = presetId } IN
    IF hits = {} THEN 0 ELSE CHOOSE i \in hits : \A j \in hits : i <= j

\* loadPreset, part_004:251-265
LoadPreset(presetId) ==
    LET i == FindPreset(presets, presetId) IN
    IF i = 0
    THEN UNCHANGED vars
    ELSE /\ selectedVoice' = presets[i].voiceId
         /\ stability' = presets[i].settings.stability
         /\ similarity' = presets[i].settings.similarity
         /\ style' = presets[i].settings.style
         /\ speakerBoost' = presets[i].settings.use_speaker_boost
         /\ selectedPreset' = presetId
         /\ toast' = "PresetLoaded"
         /\ UNCHANGED <<text, isLoading, isPlaying, voices, isLoadingVoices,
                        storeVars, audioVars, synthVars, voicesCall, restVars,
                        isMuted, previousVolume, presets, isPresetDialogOpen,
                        presetName, nPreset, recVars, lsVars, proxyLog, relayLog, previewPlaying>>

\* The preset Select (812-829): it reports a choice that changes its value.
ChoosePreset(presetId) ==
    /\ OnEditor
    /\ \E i \in 1..Len(presets) : presets[i].id = presetId
    /\ presetId # selectedPreset
    /\ LoadPreset(presetId)

\* A preset's Remove button (1100-1109), with the save effect of 161-163
RemovePreset(presetId) ==
    /\ OnClone /\ Interactive
    /\ \E i \in 1..Len(presets) : presets[i].id = presetId
    /\ presets' = SelectSeq(presets, LAMBDA p : p.id # presetId)
    /\ storedPresets' = StringifyPresets(presets')
    /\ UNCHANGED <<coreVars, storeVars, audioVars, synthVars, voicesCall,
                   toast, restVars, settingVars, selectedPreset,
                   isPresetDialogOpen, presetName, nPreset, recVars,
                   storedHistory, historyKind, presetsKind, crashed, proxyLog, relayLog, previewPlaying>>
----------------------------------------------------------------------------
(* Recording a voice sample: startRecording (part_004:427-459),            *)
(* stopRecording (461-469), the recorder's onstop (434-440) and            *)
(* recordingUI (617-700)                                                   *)

\* The recorders that are capturing.
Capturing == { r \in DOMAIN recorders : recorders[r] = "recording" }

\* startRecording up to its await (428-429)
StartRecording ==
    /\ nMic < MaxMic
    /\ nMic' = nMic + 1
    /\ micCalls' = micCalls \cup {nMic + 1}
    /\ UNCHANGED <<coreVars, storeVars, audioVars, synthVars, voicesCall,
                   toast, restVars, settingVars, presetVars, isRecording,
                   mediaRecorder, recorders, captured, recordingTimerRef, timers,
                   lsVars, proxyLog, relayLog, previewPlaying>>

\* stopRecording (461-469): stop() makes the recorder inactive at once and
\* queues its stop event; clearInterval takes the interval of the ref.
StopRecording ==
    IF mediaRecorder # NoRecorder /\ recorders[mediaRecorder] = "recording"
    THEN /\ recorders' = [recorders EXCEPT ![mediaRecorder] = "stopping"]
         /\ isRecording' = FALSE
         /\ timers' = timers \ {recordingTimerRef}
         /\ UNCHANGED <<coreVars, storeVars, audioVars, synthVars, voicesCall,
                        toast, restVars, settingVars, presetVars,
                        mediaRecorder, micCalls, nMic, recordingTimerRef,
                        captured, lsVars, proxyLog, relayLog, previewPlaying>>
    ELSE UNCHANGED vars

\* The round button of recordingUI (639-652), shown while no sample exists
ClickMic ==
    /\ isVoiceDialogOpen /\ ~crashed
    /\ recordedAudio = None
    /\ IF isRecording THEN StopRecording ELSE StartRecording

\* getUserMedia resolves: lines 430-450
MicGranted(m) ==
    /\ m \in micCalls
    /\ micCalls' = micCalls \ {m}
    /\ recorders' = recorders @@ (m :> "recording")
    /\ captured' = captured @@ (m :> 0)
    /\ mediaRecorder' = m
    /\ isRecording' = TRUE
    /\ recordingDuration' = 0
    /\ recordingTimerRef' = m
    /\ timers' = timers \cup {m}
    /\ UNCHANGED <<coreVars, storeVars, audioVars, synthVars, voicesCall,
                   toast, selVars, panelVars, isCloning, voiceName,
                   selectedFile, recordedAudio, audioURL, uploadProgress,
                   isVoiceDialogOpen, cloneCalls, nClone, progressTimer,
                   settingVars, presetVars, nMic, lsVars, proxyLog, relayLog, previewPlaying>>

\* The recorder gathers one more unit of audio from its stream.
Capture(r) ==
    /\ r \in Capturing
    /\ captured[r] < MaxCapture
    /\ captured' = [captured EXCEPT ![r] = @ + 1]
    /\ UNCHANGED <<coreVars, storeVars, audioVars, synthVars, voicesCall,
                   toast, restVars, settingVars, presetVars, isRecording,
                   mediaRecorder, recorders, micCalls, nMic,
                   recordingTimerRef, timers, lsVars, proxyLog, relayLog, previewPlaying>>

\* getUserMedia rejects: catch (451-458)
MicDeniedRecording(m) ==
    /\ m \in micCalls
    /\ micCalls' = micCalls \ {m}
    /\ toast' = "MicFailed"
    /\ isRecording' = TRUE
    /\ UNCHANGED <<coreVars, storeVars, audioVars, synthVars, voicesCall,
                   restVars, settingVars, presetVars, mediaRecorder,
                   recorders, captured, nMic, recordingTimerRef, timers, lsVars,
                   proxyLog, relayLog, previewPlaying>>
MicDenied(m) ==
    /\ m \in micCalls
    /\ micCalls' = micCalls \ {m}
    /\ toast' = "MicFailed"
    /\ UNCHANGED <<coreVars, storeVars, audioVars, synthVars, voicesCall,
                   restVars, settingVars, presetVars, isRecording,
                   mediaRecorder, recorders, captured, nMic, recordingTimerRef, timers,
                   lsVars, proxyLog, relayLog, previewPlaying>>

\* The stop event of a recorder: onstop (434-440)
RecorderOnStop(r) ==
    /\ r \in DOMAIN recorders /\ recorders[r] = "stopping"
    /\ recorders' = [recorders EXCEPT ![r] = "inactive"]
    /\ recordedAudio' = BlobOf(captured[r])
    /\ audioURL' = "blob:url"
    /\ previewPlaying' = FALSE
    /\ UNCHANGED <<coreVars, storeVars, audioVars, synthVars, voicesCall,
                   toast, selVars, panelVars, isCloning, voiceName,
                   selectedFile, recordingDuration, uploadProgress,
                   isVoiceDialogOpen, cloneCalls, nClone, progressTimer,
                   settingVars, presetVars, isRecording, mediaRecorder,
                   micCalls, nMic, recordingTimerRef, timers, captured,
                   lsVars, proxyLog, relayLog>>

\* The Reset button (625-635), shown while a sample exists
ClickReset ==
    /\ isVoiceDialogOpen /\ ~crashed
    /\ recordedAudio # None
    /\ ResetRecording
    /\ UNCHANGED <<text, isLoading, voices, selectedVoice, isLoadingVoices,
                   toast, appVars, isCloning, voiceName, selectedFile,
                   uploadProgress, isVoiceDialogOpen, cloneCalls, nClone,
                   progressTimer, extRest>>

\* The <audio> element of the sample exists while recordingUI shows it.
PreviewMounted == isVoiceDialogOpen /\ recordedAudio # None

\* handlePlayPause (471-480): the flag decides between pause() and play()
HandlePlayPause ==
    /\ IF PreviewMounted
       THEN /\ previewPlaying' = ~isPlaying
            /\ isPlaying' = ~isPlaying
       ELSE UNCHANGED <<previewPlaying, isPlaying>>
    /\ UNCHANGED <<text, isLoading, voices, selectedVoice, isLoadingVoices,
                   storeVars, audioVars, synthVars, voicesCall, toast,
                   restVars, extRest>>

\* The play button of the sample (668-679)
ClickPlayPause ==
    /\ PreviewMounted /\ ~crashed
    /\ HandlePlayPause

\* The element plays to its end: onEnded (664)
PreviewEnded ==
    /\ previewPlaying
    /\ previewPlaying' = FALSE
    /\ isPlaying' = FALSE
    /\ UNCHANGED <<text, isLoading, voices, selectedVoice, isLoadingVoices,
                   storeVars, audioVars, synthVars, voicesCall, toast,
                   restVars, extRest>>
----------------------------------------------------------------------------
(* localStorage: the load effect (part_004:135-154) and the save effects   *)
(* (156-163) of TTSApp, and the page loaded again                          *)

\* What the stored collections can hold when the page is opened: entries an
\* earlier session wrote, or what another version or program left there.
StoredHistoryItem ==
    [id |-> 0, text |-> <<"a">>, voiceId |-> "v1", voiceName |-> <<"A">>,
     timestamp |-> [type |-> "string", at |-> 0],
     duration |-> EstimatedDuration(<<"a">>)]
StoredPreset ==
    [id |-> 9, name |-> <<"Q">>, voiceId |-> "v2",
     settings |-> [stability |-> 0, similarity |-> 100, style |-> 100,
                   use_speaker_boost |-> FALSE]]
StoredHistoryValues ==
    { Absent, Unparseable, JsonNull, JsonObject, JsonArray(<<StoredHistoryItem>>) }
StoredPresetValues ==
    { Absent, Unparseable, JsonNull, JsonObject, JsonOldEntries,
      JsonArray(<<StoredPreset>>) }

\* The value a cell holds after the load effect: getItem answered null
\* (140, 147) or JSON.parse threw (143, 150) and the cell keeps its [];
\* otherwise it is whatever JSON.parse returned (142, 149).
Loaded(stored) ==
    IF stored.kind \in { "absent", "unparseable" }
    THEN JsonArray(<<>>)
    ELSE stored

\* JSON.stringify of a cell (158, 162)
StringifyCell(cell, stringified) ==
    IF cell.kind = "array" THEN stringified ELSE cell

\* The render of TTSApp evaluates presets.map (820), presets.length (1085)
\* and preset.settings.stability (1112): it throws unless presets is an
\* array of entries with settings.
RenderThrows(cell) == cell.kind # "array"

\* Every cell of the page as it is constructed (part_004:66-121,
\* elevenlabs-history.tsx:47-48, 350-357); requests of the page before are
\* answered to nobody.
FreshPage ==
    /\ text' = <<>>
    /\ isLoading' = FALSE
    /\ isPlaying' = FALSE
    /\ voices' = <<>>
    /\ selectedVoice' = NoVoice
    /\ isLoadingVoices' = TRUE
    /\ savedAudio' = NoAudio
    /\ audioContext' = FALSE
    /\ gainValue' = 100
    /\ volume' = InitialVolume
    /\ sourceRef' = NoSource
    /\ playing' = {}
    /\ endedPending' = {}
    /\ synthCalls' = {}
    /\ lastSettled' = [id |-> NoCall, log |-> <<>>]
    /\ voicesCall' = [pc |-> "fetching", selectedVoice |-> NoVoice]
    /\ toast' = None
    /\ dialog' = NoDialog
    /\ newVoiceName' = <<>>
    /\ deleteVoiceId' = NoVoice
    /\ isDeleting' = FALSE
    /\ renameCalls' = {}
    /\ deleteCalls' = {}
    /\ activeTab' = "editor"
    /\ historyItems' = <<>>
    /\ panelLoading' = FALSE
    /\ fetchCalls' = {}
    /\ delItemCalls' = {}
    /\ itemsWriter' = NoCall
    /\ isCloning' = FALSE
    /\ voiceName' = <<>>
    /\ selectedFile' = None
    /\ recordedAudio' = None
    /\ audioURL' = None
    /\ recordingDuration' = 0
    /\ uploadProgress' = 0
    /\ isVoiceDialogOpen' = FALSE
    /\ cloneCalls' = {}
    /\ progressTimer' = FALSE
    /\ stability' = InitialStability
    /\ similarity' = InitialSimilarity
    /\ style' = InitialStyle
    /\ speakerBoost' = TRUE
    /\ isMuted' = FALSE
    /\ previousVolume' = InitialVolume
    /\ selectedPreset' = NoPreset
    /\ isPresetDialogOpen' = FALSE
    /\ presetName' = <<>>
    /\ isRecording' = FALSE
    /\ mediaRecorder' = NoRecorder
    /\ recorders' = <<>>
    /\ micCalls' = {}
    /\ recordingTimerRef' = NoTimer
    /\ timers' = {}
    /\ captured' = <<>>
    /\ previewPlaying' = FALSE

\* The page is opened while localStorage holds sh and sp.  The effects of
\* the mount run in order: the load effect sets the cells, the save effects
\* write the initial [] of the first render; the render that follows shows
\* the loaded cells and, unless it throws, its save effects write them.
OpenPage(sh, sp) ==
    /\ FreshPage
    /\ audioHistory' = Loaded(sh).items
    /\ historyKind' = Loaded(sh).kind
    /\ presets' = Loaded(sp).items
    /\ presetsKind' = Loaded(sp).kind
    /\ crashed' = RenderThrows(Loaded(sp))
    /\ storedHistory' =
          IF RenderThrows(Loaded(sp)) THEN JsonArray(<<>>)
          ELSE StringifyCell(Loaded(sh), StringifyHistory(Loaded(sh).items))
    /\ storedPresets' =
          IF RenderThrows(Loaded(sp)) THEN JsonArray(<<>>)
          ELSE StringifyCell(Loaded(sp), StringifyPresets(Loaded(sp).items))
    /\ UNCHANGED <<gatewayHistory, nSynth, nRename, nPanelCall, nClone,
                   nPreset, nMic, proxyLog, relayLog, deleted, voicesWrites>>

\* The page is loaded again.
Reload == OpenPage(storedHistory, storedPresets)

\* The page is opened after something else wrote the two keys.
OpenOnStored(sh, sp) ==
    /\ sh # storedHistory \/ sp # storedPresets
    /\ OpenPage(sh, sp)
----------------------------------------------------------------------------
(* The proxy routes: GET /api/voices (part_003), POST /api/tts             *)
(* (app/api/tts/route.ts), POST /api/clone-voice (part_002), the rename    *)
(* and delete routes of a voice (part_000, part_001:4-30), and the history *)
(* routes (app/api/history/...).  A route is a function of the server's    *)
(* credential, the request and the Gateway's answer; its value is the      *)
(* response, with what the route sent to the Gateway.                      *)

\* process.env.ELEVENLABS_API_KEY: not set, or the provider's key
Unset == "unset"
Secret == "sk-secret"
Credentials == { Unset, Secret }

\* process.env.ELEVENLABS_API_KEY || "" (part_000:15, part_001:14,
\* history/route.ts:8)
KeyOrEmpty(cred) == IF cred = Unset THEN "" ELSE cred

\* process.env.ELEVENLABS_API_KEY! as a header value (part_002:30): the
\* assertion is erased at build time and fetch writes undefined as text
KeyAsserted(cred) == IF cred = Unset THEN "undefined" ELSE cred

\* The Gateway authenticates every request: one that carries its key is
\* served, refused for its content, or lost; any other is refused as
\* unauthorized, or lost.  A refusal's JSON body may carry detail.message.
GatewayMessages == { "", "gateway says" }
GatewayAnswersTo(key) ==
    IF key = Secret
    THEN { [kind |-> "ok", status |-> 200, message |-> ""],
           [kind |-> "unreachable", status |-> 0, message |-> ""] }
         \cup { [kind |-> "refused", status |-> 422, message |-> m] :
                  m \in GatewayMessages }
    ELSE { [kind |-> "unreachable", status |-> 0, message |-> ""] }
         \cup { [kind |-> "refused", status |-> 401, message |-> m] :
                  m \in GatewayMessages }

\* voice_settings: { stability: 0.5, similarity_boost: 0.5 },
\* tts/route.ts:25-28, in hundredths
FixedStability == 50
FixedSimilarityBoost == 50

KeyOnly(key) == [NoForward EXCEPT !.key = key]

Failure(message, fwd, called) ==
    [status |-> 500, error |-> message, called |-> called, forwarded |-> fwd]
Success(fwd) ==
    [status |-> 200, error |-> "", called |-> TRUE, forwarded |-> fwd]

\* A route that sends the key or "" and throws on !response.ok inside its
\* try: part_000:8-32, part_001:8-29, history/route.ts:5-23,
\* history/[historyItemId]/route.ts:8-29, .../audio/route.ts:8-34
RelayOrFail(cred, g, message) ==
    IF g.kind = "ok" THEN Success(KeyOnly(KeyOrEmpty(cred)))
    ELSE Failure(message, KeyOnly(KeyOrEmpty(cred)), TRUE)

RouteRename(cred, g) == RelayOrFail(cred, g, "Failed to rename voice")
RouteDeleteVoice(cred, g) == RelayOrFail(cred, g, "Failed to delete voice")
RouteHistory(cred, g) == RelayOrFail(cred, g, "Failed to fetch history")
RouteHistoryDelete(cred, g) ==
    RelayOrFail(cred, g, "Failed to delete history item")
RouteHistoryAudio(cred, g) == RelayOrFail(cred, g, "Failed to fetch audio")

\* GET /api/voices, part_003:4-20: getVoices(apiKey) answers or throws
RouteVoices(cred, g) ==
    IF cred = Unset THEN Failure("Failed to fetch voices", NoForward, FALSE)
    ELSE IF g.kind = "ok" THEN Success(KeyOnly(cred))
    ELSE Failure("Failed to fetch voices", KeyOnly(cred), TRUE)

\* The JSON body POST /api/tts sends to the Gateway, tts/route.ts:22-29
TtsForwarded(cred, body) ==
    [key |-> cred, text |-> body.text, voiceId |-> body.voiceId,
     model_id |-> "eleven_monolingual_v1",
     voice_settings |-> <<FixedStability, FixedSimilarityBoost>>]

\* POST /api/tts, tts/route.ts:3-52
RouteTts(cred, body, g) ==
    IF cred = Unset
    THEN Failure("Failed to convert text to speech", NoForward, FALSE)
    ELSE IF g.kind = "ok" THEN Success(TtsForwarded(cred, body))
    ELSE Failure("Failed to convert text to speech",
                 TtsForwarded(cred, body), TRUE)

\* The POST handler kept in app/api/history/route.ts (29-91), which answers
\* POST /api/history: it sends the settings of the request, with style and
\* use_speaker_boost defaulted (46-47) when the request has none.
HistoryPostForwarded(cred, body) ==
    [key |-> cred, text |-> body.text, voiceId |-> body.voiceId,
     model_id |-> "eleven_multilingual_v2",
     voice_settings |-> <<body.stability, body.similarity_boost,
                          body.style, body.use_speaker_boost>>]
RouteHistoryPost(cred, body, g) ==
    IF cred = Unset
    THEN Failure("Failed to convert text to speech", NoForward, FALSE)
    ELSE IF g.kind = "ok" THEN Success(HistoryPostForwarded(cred, body))
    ELSE Failure("Failed to convert text to speech",
                 HistoryPostForwarded(cred, body), TRUE)

\* POST /api/clone-voice, part_002:4-66, for a complete form: the key is
\* not tested; a refusal is relayed with the Gateway's status and, when it
\* has one, the Gateway's message (36-41); a fetch that rejects goes to the
\* catch with the exception's message (59-65).
RouteCloneVoice(cred, g) ==
    IF g.kind = "ok" THEN Success(KeyOnly(KeyAsserted(cred)))
    ELSE IF g.kind = "refused"
    THEN [status |-> g.status,
          error |-> IF g.message # "" THEN g.message
                    ELSE "Failed to clone voice",
          called |-> TRUE, forwarded |-> KeyOnly(KeyAsserted(cred))]
    ELSE Failure("fetch failed", KeyOnly(KeyAsserted(cred)), TRUE)

\* The bodies synthesizeSpeech builds (part_004:313-320)
TtsBodies ==
    { [text |-> t, voiceId |-> v, stability |-> st, similarity_boost |-> si,
       style |-> sy, use_speaker_boost |-> b] :
        t \in { <<"a">> }, v \in { "v1", "v2" },
        st \in StabilityValues \cup { InitialStability },
        si \in SimilarityValues \cup { InitialSimilarity, ResetSimilarity },
        sy \in StyleValues \cup { InitialStyle }, b \in BOOLEAN }

\* The key a route puts in its request to the Gateway.
KeyOf(route, cred) ==
    IF route = "clone-voice" THEN KeyAsserted(cred)
    ELSE IF route \in { "voices", "tts", "history-post" } THEN cred
    ELSE KeyOrEmpty(cred)

BodylessRoutes == { "voices", "clone-voice", "rename", "delete-voice",
                    "history", "history-delete", "history-audio" }

RouteAnswer(route, cred, g) ==
    CASE route = "voices" -> RouteVoices(cred, g)
      [] route = "clone-voice" -> RouteCloneVoice(cred, g)
      [] route = "rename" -> RouteRename(cred, g)
      [] route = "delete-voice" -> RouteDeleteVoice(cred, g)
      [] route = "history" -> RouteHistory(cred, g)
      [] route = "history-delete" -> RouteHistoryDelete(cred, g)
      [] route = "history-audio" -> RouteHistoryAudio(cred, g)

LogsRelay(route, cred, body, g, reply) ==
    /\ relayLog' = [route |-> route, credential |-> cred, body |-> body,
                    answer |-> g.kind, reply |-> reply]
    /\ UNCHANGED <<coreVars, storeVars, audioVars, synthVars, voicesCall,
                   toast, restVars, settingVars, presetVars, recVars, lsVars,
                   proxyLog, previewPlaying>>

\* A request to a route that reads no JSON body, from any HTTP client, on
\* a server with this credential
Request(route, cred, g) ==
    /\ g \in GatewayAnswersTo(KeyOf(route, cred))
    /\ LogsRelay(route, cred, NoBody, g, RouteAnswer(route, cred, g))

\* POST /api/tts with this body
PostTts(cred, body, g) ==
    /\ g \in GatewayAnswersTo(cred)
    /\ LogsRelay("tts", cred, body, g, RouteTts(cred, body, g))

\* POST /api/history with this body
PostHistory(cred, body, g) ==
    /\ g \in GatewayAnswersTo(cred)
    /\ LogsRelay("history-post", cred, body, g, RouteHistoryPost(cred, body, g))

----------------------------------------------------------------------------
(* The editor as the user drives it. *)

Next ==
    \/ FetchVoicesOk
    \/ FetchVoicesFail
    \/ \E t \in Texts : SetText(t)
    \/ ClickGenerate
    \/ \E c \in synthCalls : SynthResponseFailed(c)
    \/ \E c \in synthCalls : SynthResponseOk(c)
    \/ \E c \in synthCalls : DecodeFailed(c)
    \/ \E c \in synthCalls : DecodeOk(c)
    \/ ClickStop
    \/ \E s \in playing : NaturalEnd(s)
    \/ \E s \in endedPending : OnEnded(s)

Spec == Init /\ [][Next]_vars

----------------------------------------------------------------------------
(* Many generations in a row, each failed or played to its end. *)

NextHist ==
    \/ FetchVoicesOk
    \/ \E t \in Examples : GenerateRandomText(t)
    \/ ClickGenerateLong
    \/ \E c \in synthCalls : SynthResponseFailed(c)
    \/ \E c \in synthCalls : SynthResponseOk(c)
    \/ \E c \in synthCalls : DecodeOk(c)
    \/ \E s \in playing : NaturalEnd(s)
    \/ \E s \in endedPending : OnEnded(s)

SpecHist == Init /\ [][NextHist]_vars

----------------------------------------------------------------------------
(* The text, the selection and the voice list changing while a request is *)
(* in flight: the buttons that stay enabled, and a voice deletion.         *)

NextSnap ==
    \/ FetchVoicesOk
    \/ \E t \in Examples : GenerateRandomText(t)
    \/ ClearText
    \/ \E id \in ClonedIds(voices) : VoiceChange(id)
    \/ \E id \in ClonedIds(voices) : OpenDetails(id)
    \/ ClickDeleteVoice
    \/ ConfirmDelete
    \/ \E c \in deleteCalls : DeleteOk(c)
    \/ ClickGenerateFew
    \/ \E c \in synthCalls : SynthResponseFailed(c)
    \/ \E c \in synthCalls : SynthResponseOk(c)
    \/ \E c \in synthCalls : DecodeOk(c)
    \/ \E s \in playing : NaturalEnd(s)
    \/ \E s \in endedPending : OnEnded(s)

SpecSnap == Init /\ [][NextSnap]_vars

----------------------------------------------------------------------------
(* synthesizeSpeech called as a function, in any state of the page. *)

NextOps ==
    \/ FetchVoicesOk
    \/ FetchVoicesFail
    \/ \E t \in Texts : SetText(t)
    \/ InvokeSynthesize
    \/ \E c \in synthCalls : SynthResponseFailed(c)
    \/ \E c \in synthCalls : SynthResponseOk(c)
    \/ \E c \in synthCalls : DecodeFailed(c)
    \/ \E c \in synthCalls : DecodeOk(c)
    \/ \E s \in playing : NaturalEnd(s)
    \/ \E s \in endedPending : OnEnded(s)

SpecOps == Init /\ [][NextOps]_vars

----------------------------------------------------------------------------
(* The four operations that own a loading flag, across the three tabs.    *)
(* A request that was issued settles: the fetch resolves or rejects, and   *)
(* so do the body read and the decode.                                     *)

\* Requests may still be issued.
Budget == nSynth + nPanelCall + nClone < MaxIssued

GenerateWithinBudget == Budget /\ ClickGenerateOnce
SwitchTabWithinBudget(t) == (t = "history" => Budget) /\ SwitchTab(t)
SubmitCloneWithinBudget == Budget /\ SubmitClone

NextFair ==
    \/ FetchVoicesOk
    \/ FetchVoicesFail
    \/ \E t \in Examples : GenerateRandomText(t)
    \/ GenerateWithinBudget
    \/ \E c \in synthCalls : SynthResponseFailed(c)
    \/ \E c \in synthCalls : SynthResponseOk(c)
    \/ \E c \in synthCalls : DecodeFailed(c)
    \/ \E c \in synthCalls : DecodeOk(c)
    \/ ClickStop
    \/ \E s \in endedPending : OnEnded(s)
    \/ \E t \in Tabs : SwitchTabWithinBudget(t)
    \/ \E c \in fetchCalls : GatewayAnswersHistory(c)
    \/ \E c \in fetchCalls : FetchHistoryOk(c)
    \/ \E c \in fetchCalls : FetchHistoryFail(c)
    \/ OpenCloneDialog
    \/ \E n \in CloneNames : TypeVoiceName(n)
    \/ ChooseFile
    \/ SubmitCloneWithinBudget
    \/ \E c \in cloneCalls : CloneOk(c)
    \/ \E c \in cloneCalls, k \in CloneFailKinds : CloneFailed(c, k)

VoicesSettle == FetchVoicesOk \/ FetchVoicesFail
SynthSettle ==
    \E c \in synthCalls :
        SynthResponseFailed(c) \/ SynthResponseOk(c) \/ DecodeFailed(c) \/ DecodeOk(c)
HistorySettle ==
    \E c \in fetchCalls :
        GatewayAnswersHistory(c) \/ FetchHistoryOk(c) \/ FetchHistoryFail(c)
CloneSettle ==
    \E c \in cloneCalls : CloneOk(c) \/ \E k \in CloneFailKinds : CloneFailed(c, k)

SpecFair ==
    /\ Init
    /\ [][NextFair]_vars
    /\ WF_vars(VoicesSettle)
    /\ WF_vars(SynthSettle)
    /\ WF_vars(HistorySettle)
    /\ WF_vars(CloneSettle)

----------------------------------------------------------------------------
(* The voice selector: renaming. *)

NextRename ==
    \/ FetchVoicesOk
    \/ \E id \in ClonedIds(voices) \cup {selectedVoice} : OpenDetails(id)
    \/ CloseDialog
    \/ StartRename
    \/ \E n \in NewNames : TypeNewName(n)
    \/ ClickSave
    \/ \E c \in renameCalls : RenameOk(c)
    \/ \E c \in renameCalls : RenameFailed(c)

SpecRename == Init /\ [][NextRename]_vars

----------------------------------------------------------------------------
(* The voice selector: selecting and deleting. *)

NextDelete ==
    \/ FetchVoicesOk
    \/ \E t \in Examples : GenerateRandomText(t)
    \/ \E id \in ClonedIds(voices) : VoiceChange(id)
    \/ \E id \in ClonedIds(voices) \cup {selectedVoice} : OpenDetails(id)
    \/ CloseDialog
    \/ ClickDeleteVoice
    \/ CancelDelete
    \/ ConfirmDelete
    \/ \E c \in deleteCalls : DeleteOk(c)
    \/ \E c \in deleteCalls : DeleteFailed(c)

SpecDelete == Init /\ [][NextDelete]_vars

----------------------------------------------------------------------------
(* The history panel. *)

NextPanel ==
    \/ FetchVoicesOk
    \/ \E t \in Tabs : SwitchTab(t)
    \/ ClickRefresh
    \/ \E c \in fetchCalls : GatewayAnswersHistory(c)
    \/ \E c \in fetchCalls : FetchHistoryOk(c)
    \/ \E c \in fetchCalls : FetchHistoryFail(c)
    \/ \E i \in 1..Len(historyItems) : SelectHistoryItem(i)
    \/ \E i \in 1..Len(historyItems) : DeleteHistoryItem(i)
    \/ \E c \in delItemCalls : DeleteHistoryItemOk(c)
    \/ \E c \in delItemCalls : DeleteHistoryItemFailed(c)

SpecPanel == Init /\ [][NextPanel]_vars

----------------------------------------------------------------------------
(* Voice cloning. *)

NextClone ==
    \/ FetchVoicesOk
    \/ \E t \in Tabs : SwitchTab(t)
    \/ \E c \in fetchCalls : FetchHistoryFail(c)
    \/ OpenCloneDialog
    \/ CloseCloneDialog
    \/ \E n \in CloneNames : TypeVoiceName(n)
    \/ ChooseFile
    \/ SubmitClone
    \/ \E c \in cloneCalls : CloneOk(c)
    \/ \E c \in cloneCalls, k \in CloneFailKinds : CloneFailed(c, k)

SpecClone == Init /\ [][NextClone]_vars

----------------------------------------------------------------------------
(* The voice settings and the presets: settings and voice changed, saved   *)
(* as a preset, changed again, and a preset chosen or removed.             *)

NextPreset ==
    \/ FetchVoicesOk
    \/ \E id \in VoiceIds(voices) : VoiceChange(id)
    \/ \E v \in StabilityValues : SetStability(v)
    \/ \E v \in StyleValues : SetStyle(v)
    \/ \E b \in BOOLEAN : SetSpeakerBoost(b)
    \/ ResetSettings
    \/ OpenPresetDialog
    \/ ClosePresetDialog
    \/ \E n \in PresetNames : TypePresetName(n)
    \/ ClickSavePreset
    \/ \E id \in 1..nPreset : ChoosePreset(id)
    \/ \E id \in 1..nPreset : RemovePreset(id)
    \/ \E t \in { "editor", "clone" } : SwitchTab(t)

SpecPreset == Init /\ [][NextPreset]_vars

----------------------------------------------------------------------------
(* The volume slider and the mute button, beside generations that build    *)
(* the gain stage.                                                         *)

NextVolume ==
    \/ FetchVoicesOk
    \/ \E t \in Examples : GenerateRandomText(t)
    \/ ClickGenerateFew
    \/ \E c \in synthCalls : SynthResponseFailed(c)
    \/ \E c \in synthCalls : SynthResponseOk(c)
    \/ \E c \in synthCalls : DecodeOk(c)
    \/ \E s \in playing : NaturalEnd(s)
    \/ \E s \in endedPending : OnEnded(s)
    \/ \E v \in VolumeValues : HandleVolumeChange(v)
    \/ ClickMute

SpecVolume == Init /\ [][NextVolume]_vars

----------------------------------------------------------------------------
(* Voice cloning with the form's handler called as a function, its request *)
(* answered by any server, and the route called by any client.             *)

NextCloneOps ==
    \/ FetchVoicesOk
    \/ \E t \in { "editor", "clone" } : SwitchTab(t)
    \/ OpenCloneDialog
    \/ CloseCloneDialog
    \/ \E n \in CloneNames : TypeVoiceName(n)
    \/ ChooseFile
    \/ CloneFormSubmit
    \/ \E c \in cloneCalls : CloneAnswered(c)
    \/ \E f \in { 0, 1 }, n \in CloneNames, g \in GatewayCloneAnswers("n1") :
          DirectPost(f, n, g)

SpecCloneOps == Init /\ [][NextCloneOps]_vars

----------------------------------------------------------------------------
(* The clone dialog's sample: a file chosen, a recording started, stopped  *)
(* and reset, with the device answering and the recorder's stop event      *)
(* arriving whenever they do.                                              *)

NextRecord ==
    \/ \E t \in { "editor", "clone" } : SwitchTab(t)
    \/ OpenCloneDialog
    \/ CloseCloneDialog
    \/ ChooseFile
    \/ ClickMic
    \/ \E m \in micCalls : MicGranted(m)
    \/ \E m \in micCalls : MicDenied(m)
    \/ \E r \in DOMAIN recorders : Capture(r)
    \/ \E r \in DOMAIN recorders : RecorderOnStop(r)
    \/ ClickReset

SpecRecord == Init /\ [][NextRecord]_vars

----------------------------------------------------------------------------
(* The page opened on whatever localStorage holds, then used: a generation *)
(* that adds to the history, a preset saved and chosen.                    *)

NextStore ==
    \/ \E sh \in StoredHistoryValues, sp \in StoredPresetValues :
          OpenOnStored(sh, sp)
    \/ Reload
    \/ FetchVoicesOk
    \/ \E t \in Examples : GenerateRandomText(t)
    \/ ClickGenerateOnce
    \/ \E c \in synthCalls : SynthResponseOk(c)
    \/ \E c \in synthCalls : DecodeOk(c)
    \/ OpenPresetDialog
    \/ \E n \in PresetNames : TypePresetName(n)
    \/ ClickSavePreset
    \/ \E i \in 1..Len(presets) : ChoosePreset(presets[i].id)

SpecStore == Init /\ [][NextStore]_vars

----------------------------------------------------------------------------
(* The history and the presets written by the page itself, and the page    *)
(* loaded again on what it wrote.                                          *)

NextReload ==
    \/ Reload
    \/ FetchVoicesOk
    \/ \E t \in Examples : GenerateRandomText(t)
    \/ ClickGenerateFew
    \/ \E c \in synthCalls : SynthResponseFailed(c)
    \/ \E c \in synthCalls : SynthResponseOk(c)
    \/ \E c \in synthCalls : DecodeOk(c)
    \/ \E s \in playing : NaturalEnd(s)
    \/ \E s \in endedPending : OnEnded(s)
    \/ \E v \in StabilityValues : SetStability(v)
    \/ OpenPresetDialog
    \/ \E n \in PresetNames : TypePresetName(n)
    \/ ClickSavePreset
    \/ \E t \in { "editor", "clone" } : SwitchTab(t)
    \/ \E i \in 1..Len(presets) : RemovePreset(presets[i].id)

SpecReload == Init /\ [][NextReload]_vars
----------------------------------------------------------------------------
(* The recorder session where what is pending arrives: the device answers  *)
(* a getUserMedia call, and a recorder that was stopped fires its stop     *)
(* event (the browser queues it as a task when stop() is called).          *)

MicSettle == \E m \in micCalls : MicGranted(m) \/ MicDenied(m)
StopEvent == \E r \in DOMAIN recorders : RecorderOnStop(r)

SpecRecordFair ==
    /\ Init
    /\ [][NextRecord]_vars
    /\ WF_vars(MicSettle)
    /\ WF_vars(StopEvent)

----------------------------------------------------------------------------
(* The proxy routes, each asked by any client, on a server with or without *)
(* the credential, with every answer the Gateway can give.                 *)

AnyGatewayAnswer == GatewayAnswersTo(Secret) \cup GatewayAnswersTo(Unset)

NextRelay ==
    \/ \E route \in BodylessRoutes, cred \in Credentials,
          g \in AnyGatewayAnswer : Request(route, cred, g)
    \/ \E cred \in Credentials, body \in TtsBodies, g \in AnyGatewayAnswer :
          PostTts(cred, body, g)
    \/ \E cred \in Credentials, body \in TtsBodies, g \in AnyGatewayAnswer :
          PostHistory(cred, body, g)

SpecRelay == Init /\ [][NextRelay]_vars

----------------------------------------------------------------------------
(* Playback and the operations of the page that write the playing flag:    *)
(* generation, Stop, a source's end, and in the clone dialog the sample's  *)
(* preview, Reset and the cloning call.                                    *)

NextPlayback ==
    \/ FetchVoicesOk
    \/ \E t \in Examples : GenerateRandomText(t)
    \/ ClickGenerateFew
    \/ \E c \in synthCalls : SynthResponseFailed(c)
    \/ \E c \in synthCalls : SynthResponseOk(c)
    \/ \E c \in synthCalls : DecodeFailed(c)
    \/ \E c \in synthCalls : DecodeOk(c)
    \/ ClickStop
    \/ \E s \in playing : NaturalEnd(s)
    \/ \E s \in endedPending : OnEnded(s)
    \/ \E t \in { "editor", "clone" } : SwitchTab(t)
    \/ OpenCloneDialog
    \/ CloseCloneDialog
    \/ ClickMic
    \/ \E m \in micCalls : MicGranted(m)
    \/ \E r \in DOMAIN recorders : RecorderOnStop(r)
    \/ ClickPlayPause
    \/ PreviewEnded
    \/ ClickReset
    \/ \E n \in CloneNames : TypeVoiceName(n)
    \/ SubmitClone
    \/ \E c \in cloneCalls : CloneOk(c)
    \/ \E c \in cloneCalls, k \in CloneFailKinds : CloneFailed(c, k)

SpecPlayback == Init /\ [][NextPlayback]_vars

----------------------------------------------------------------------------
(* Generation after the selection was made by the selector, a preset or a  *)
(* recalled history item, with voices deleted and cloned in between.       *)

NextVoiceRef ==
    \/ FetchVoicesOk
    \/ \E t \in Examples : GenerateRandomText(t)
    \/ ClickGenerateOnce
    \/ \E c \in synthCalls : SynthResponseFailed(c)
    \/ \E id \in ClonedIds(voices) : VoiceChange(id)
    \/ \E id \in ClonedIds(voices) : OpenDetails(id)
    \/ ClickDeleteVoice
    \/ ConfirmDelete
    \/ \E c \in deleteCalls : DeleteOk(c)
    \/ OpenPresetDialog
    \/ \E n \in PresetNames : TypePresetName(n)
    \/ ClickSavePreset
    \/ \E i \in 1..Len(presets) : ChoosePreset(presets[i].id)
    \/ \E t \in { "editor", "history" } : SwitchTab(t)
    \/ \E c \in fetchCalls : GatewayAnswersHistory(c)
    \/ \E c \in fetchCalls : FetchHistoryOk(c)
    \/ \E i \in 1..Len(historyItems) : SelectHistoryItem(i)

SpecVoiceRef == Init /\ [][NextVoiceRef]_vars

----------------------------------------------------------------------------
(* The sample of the clone dialog: recorded or chosen as a file, played,   *)
(* reset, and submitted to a cloning call that succeeds or fails.          *)

NextSample ==
    \/ \E t \in { "editor", "clone" } : SwitchTab(t)
    \/ OpenCloneDialog
    \/ CloseCloneDialog
    \/ \E n \in CloneNames : TypeVoiceName(n)
    \/ ChooseFile
    \/ ClickMic
    \/ \E m \in micCalls : MicGranted(m)
    \/ \E r \in DOMAIN recorders : Capture(r)
    \/ \E r \in DOMAIN recorders : RecorderOnStop(r)
    \/ ClickPlayPause
    \/ PreviewEnded
    \/ ClickReset
    \/ SubmitClone
    \/ \E c \in cloneCalls : CloneOk(c)
    \/ \E c \in cloneCalls, k \in CloneFailKinds : CloneFailed(c, k)

SpecSample == Init /\ [][NextSample]_vars


-----------------------------------------------------------------------------
(* The voice list under its three writers besides the initial fetch: a     *)
(* rename and a deletion issued from the selector and a cloning call issued *)
(* from the clone dialog, each completing whenever its answer arrives.     *)

\* The calls that write the voice list, issued so far.
ListCalls == nRename + nClone + Cardinality(deleted) + Cardinality(deleteCalls)
ListBudget == ListCalls < MaxListCalls

NextVoiceList ==
    \/ FetchVoicesOk
    \/ \E t \in { "editor", "clone" } : SwitchTab(t)
    \/ \E id \in ClonedIds(voices) \cup {selectedVoice} : OpenDetails(id)
    \/ CloseDialog
    \/ StartRename
    \/ TypeNewName(<<"C">>)
    \/ ListBudget /\ ClickSave
    \/ \E c \in renameCalls : RenameOk(c)
    \/ ClickDeleteVoice
    \/ ListBudget /\ ConfirmDelete
    \/ \E c \in deleteCalls : DeleteOk(c)
    \/ OpenCloneDialog
    \/ TypeVoiceName(<<"M">>)
    \/ ChooseFile
    \/ ListBudget /\ SubmitClone
    \/ \E c \in cloneCalls : CloneOk(c)

SpecVoiceList == Init /\ [][NextVoiceList]_vars
----------------------------------------------------------------------------
(* Properties *)

\* The entries of a history that belong to call k.
EntriesOf(h, k) == { i \in 1..Len(h) : h[i].id = k }

\* A text with no character other than whitespace.
IsBlank(s) == \A i \in 1..Len(s) : IsSpace(s[i])

\* Call c's request is answered successfully in this step: it leaves the
\* fetch and waits for the decode.
Succeeds(c) ==
    /\ c \in synthCalls /\ c.pc = "fetching"
    /\ \E d \in synthCalls' : d.id = c.id /\ d.pc = "decoding"

\* Call c fails in this step after its request had succeeded.
FailsAfterSuccess(c) ==
    /\ c \in synthCalls /\ c.pc = "decoding"
    /\ c \notin synthCalls'
    /\ lastSettled' = [id |-> c.id, log |-> c.log]

\* C1: after any sequence of synthesize, stop and natural-end events at most
\* one playback source is started and not yet stopped or ended.
C1_AtMostOneActiveSource == Cardinality(playing) <= 1

\* C2: the history never holds more than 10 entries; a step that changes it
\* puts one new entry in front, keeps the entries it had in their order
\* behind it, and drops only the last one, the first inserted (the one with
\* the smallest call number), and only when 10 were present.
C2_HistoryStep ==
    audioHistory' # audioHistory =>
        /\ Len(audioHistory') =
             IF Len(audioHistory) < HistoryCap
             THEN Len(audioHistory) + 1 ELSE HistoryCap
        /\ EntriesOf(audioHistory, Head(audioHistory').id) = {}
        /\ \A i \in 2..Len(audioHistory') : audioHistory'[i] = audioHistory[i - 1]
        /\ Len(audioHistory) = HistoryCap =>
             \A i \in 1..HistoryCap :
                 audioHistory[HistoryCap].id <= audioHistory[i].id
C2_HistoryBounded ==
    /\ [](Len(audioHistory) <= HistoryCap)
    /\ [][C2_HistoryStep]_vars

\* The eleventh entry has been inserted: ten are held, the first is gone.
C2_Witness ==
    /\ Len(audioHistory) = HistoryCap
    /\ Head(audioHistory).id = HistoryCap + 1
    /\ audioHistory[HistoryCap].id = 2

\* C3: a synthesize call whose request succeeds adds exactly one history
\* entry, whose text, voice id and voice name are the text, the selected
\* voice and that voice's name of the moment the call was issued; no other
\* step adds an entry.
C3_Issue ==
    \A d \in synthCalls' \ synthCalls :
        d.pc = "fetching" =>
            /\ d.text = text
            /\ d.voiceId = selectedVoice
            /\ VoiceNameOf(d.voices, d.voiceId) = VoiceNameOf(voices, selectedVoice)
C3_Success ==
    \A c \in synthCalls :
        Succeeds(c) =>
            /\ Len(audioHistory') = Len(audioHistory) + 1
            /\ Tail(audioHistory') = audioHistory
            /\ Cardinality(EntriesOf(audioHistory', c.id)) = 1
            /\ Head(audioHistory').id = c.id
            /\ Head(audioHistory').text = c.text
            /\ Head(audioHistory').voiceId = c.voiceId
            /\ Head(audioHistory').voiceName = VoiceNameOf(c.voices, c.voiceId)
C3_OnlySuccessAppends ==
    audioHistory' # audioHistory => \E c \in synthCalls : Succeeds(c)
C3_EntrySnapshotsTheCall ==
    [][C3_Issue /\ C3_Success /\ C3_OnlySuccessAppends]_vars

\* The entry of a call that is still decoding differs from the live text,
\* selection and voice list in all three fields.
C3_Witness ==
    /\ audioHistory # <<>>
    /\ \E c \in synthCalls : c.pc = "decoding" /\ c.id = Head(audioHistory).id
    /\ Head(audioHistory).text # text
    /\ Head(audioHistory).voiceId # selectedVoice
    /\ Head(audioHistory).voiceName # UnknownVoice
    /\ VoiceNameOf(voices, Head(audioHistory).voiceId) = UnknownVoice

\* C4: within one synthesize call the artifact is set, then the history
\* entry is appended, then playback starts, each at most once; a source
\* never plays before its call's entry and artifact exist.
EffectPrefixes ==
    { <<>>, <<"artifact">>, <<"artifact", "history">>,
      <<"artifact", "history", "play">> }
C4_ArtifactHistoryPlayback ==
    /\ \A c \in synthCalls : c.log \in EffectPrefixes
    /\ lastSettled.log \in EffectPrefixes
    /\ \A k \in 1..nSynth : Cardinality(EntriesOf(audioHistory, k)) <= 1
    /\ \A s \in (playing \cup endedPending \cup {sourceRef}) \ {NoSource} :
          /\ EntriesOf(audioHistory, s) # {}
          /\ savedAudio.call >= s

\* A call has run through all three effects and its source is playing.
C4_Witness ==
    /\ lastSettled.log = <<"artifact", "history", "play">>
    /\ lastSettled.id \in playing
    /\ Head(audioHistory).id = lastSettled.id
    /\ savedAudio.call = lastSettled.id

\* C5: when the request succeeded and the decode or the start of playback
\* fails, the call's history entry and artifact stay as recorded, and the
\* playing flag and the loading flag are false afterwards.
C5_Step ==
    \A c \in synthCalls :
        FailsAfterSuccess(c) =>
            /\ EntriesOf(audioHistory, c.id) # {}
            /\ savedAudio.call = c.id
            /\ audioHistory' = audioHistory
            /\ savedAudio' = savedAudio
            /\ isPlaying' = FALSE
            /\ isLoading' = FALSE
C5_DecodeFailureKeepsRecords == [][C5_Step]_vars

\* A call failed after its request had succeeded.
C5_Witness ==
    /\ lastSettled.log = <<"artifact", "history">>
    /\ toast = "SynthFailed"
    /\ Head(audioHistory).id = lastSettled.id
    /\ savedAudio.call = lastSettled.id
    /\ ~isPlaying /\ ~isLoading

\* C6: while the text is empty or only whitespace no request is issued, no
\* request in flight carries such a text, and the step that raises the
\* "enter some text" notification changes nothing else.
C6_Step ==
    /\ IsBlank(text) =>
          /\ nSynth' = nSynth
          /\ \A d \in synthCalls' : \E c \in synthCalls : c.id = d.id
    /\ toast' = "EnterText" /\ toast # "EnterText" =>
          /\ IsBlank(text)
          /\ UNCHANGED <<coreVars, storeVars, audioVars, synthVars, voicesCall,
                         selVars, panelVars, cloneVars>>
C6_BlankTextIssuesNothing ==
    /\ [](\A c \in synthCalls : ~IsBlank(c.text))
    /\ [][C6_Step]_vars

\* synthesizeSpeech was called with a whitespace-only text while an earlier
\* call was still in flight.
C6_Witness ==
    /\ toast = "EnterText"
    /\ text = <<" ", " ">>
    /\ synthCalls # {}

FlagsMatchCalls ==
    /\ isLoading <=> synthCalls # {}
    /\ isLoadingVoices <=> voicesCall.pc = "fetching"
    /\ isCloning <=> cloneCalls # {}
    /\ panelLoading <=> \E c \in fetchCalls : ~c.orphan
C8_LoadingFlagsReset ==
    /\ []FlagsMatchCalls
    /\ isLoading ~> ~isLoading
    /\ isLoadingVoices ~> ~isLoadingVoices
    /\ isCloning ~> ~isCloning
    /\ panelLoading ~> ~panelLoading

\* All four flags have been raised and lowered again, one of them by a
\* failure.
C8_Witness ==
    /\ nSynth > 0 /\ nPanelCall > 0 /\ nClone > 0
    /\ ~isLoading /\ ~isLoadingVoices /\ ~isCloning /\ ~panelLoading
    /\ synthCalls = {} /\ cloneCalls = {} /\ fetchCalls = {}
    /\ toast \in { "SynthFailed", "HistoryFailed", "CloneFailed" }

\* C9: the completion of a call issued earlier is never applied over state
\* written by the completion of a call issued later: the rename completions
\* that wrote the voice list did so in the order the calls were issued.
C9_CompletionsInIssueOrder ==
    \A i, j \in 1..Len(voicesWrites) :
        i < j => voicesWrites[i] < voicesWrites[j]

\* C10: once a deleteVoice(id) has completed successfully the id is not in
\* the voice list and is not the selected voice.
C10_DeletedNeverSelected ==
    /\ deleted \cap VoiceIds(voices) = {}
    /\ selectedVoice \notin deleted

----------------------------------------------------------------------------
(* Presets *)

\* The settings bundle and the voice a preset holds, and the ones in use.
BundleOf(p) ==
    <<p.settings.stability, p.settings.similarity, p.settings.style,
      p.settings.use_speaker_boost, p.voiceId>>
BundleInUse == <<stability, similarity, style, speakerBoost, selectedVoice>>

\* The preset with this id, as the collection of this state holds it.
PresetsWithId(ps, id) == { i \in 1..Len(ps) : ps[i].id = id }

\* C11: a saved preset holds the settings bundle (stability, similarity
\* boost, style, speaker boost) and the voice in use when it was saved, no
\* later step changes a preset that is kept, no two presets share an id,
\* and loading a preset puts exactly its bundle and its voice in use,
\* whatever the settings were changed to in between.
C11_Step ==
    /\ \A i \in 1..Len(presets') :
          \/ \E j \in 1..Len(presets) : presets[j] = presets'[i]
          \/ /\ PresetsWithId(presets, presets'[i].id) = {}
             /\ BundleOf(presets'[i]) = BundleInUse
    /\ \A i, j \in 1..Len(presets') :
          presets'[i].id = presets'[j].id => i = j
    /\ toast' = "PresetLoaded" /\ selectedPreset' # selectedPreset =>
          \E i \in 1..Len(presets) :
             /\ presets[i].id = selectedPreset'
             /\ <<stability', similarity', style', speakerBoost',
                  selectedVoice'>> = BundleOf(presets[i])
C11_PresetRoundTrip == [][C11_Step]_vars

\* A preset was saved with settings and a voice that are not the initial
\* ones, all of them were changed afterwards, and the preset was loaded.
C11_Witness ==
    /\ toast = "PresetLoaded"
    /\ \E i \in 1..Len(presets) :
          /\ presets[i].id = selectedPreset
          /\ BundleOf(presets[i]) = BundleInUse
          /\ presets[i].settings.stability # InitialStability
          /\ presets[i].settings.similarity = ResetSimilarity
          /\ presets[i].settings.style # InitialStyle
          /\ ~presets[i].settings.use_speaker_boost
          /\ presets[i].voiceId = "v2"

----------------------------------------------------------------------------
(* Mute *)

\* C12: muting stores the volume in use and sets the volume to 0; the stored
\* volume is kept while muted; unmuting sets the volume to the stored one
\* and the muted flag to false.  So for every volume v, muting and then
\* unmuting ends with volume v and not muted.
C12_Step ==
    /\ ~isMuted /\ isMuted' => previousVolume' = volume /\ volume' = 0
    /\ isMuted /\ isMuted' => previousVolume' = previousVolume
    /\ isMuted /\ ~isMuted' => volume' = previousVolume
C12_MuteRoundTrip == [][C12_Step]_vars

\* The volume was put to 30, muted while a gain stage exists, and unmuted.
C12_Witness ==
    /\ ~isMuted
    /\ audioContext
    /\ previousVolume = 30
    /\ volume = previousVolume

----------------------------------------------------------------------------
(* Voice cloning *)

\* The clone form holds no name or no sample.
FormLacksInput ==
    voiceName = <<>> \/ (selectedFile = None /\ recordedAudio = None)

\* C13: while the clone form holds no sample or an empty name, no step
\* issues a clone request or raises the cloning flag, and a step that is
\* not the arrival of a response leaves the voice list, the selection and
\* the cloning flag as they are; the route answers a request with no file
\* or no name with status 400 and does not call the Gateway for it.
C13_Step ==
    FormLacksInput =>
       /\ nClone' = nClone
       /\ cloneCalls' \subseteq cloneCalls
       /\ isCloning' => isCloning
       /\ cloneCalls' = cloneCalls /\ voicesCall' = voicesCall =>
             UNCHANGED <<voices, selectedVoice, isCloning>>
C13_RouteRefuses ==
    proxyLog.answer # "none" /\ (proxyLog.files = 0 \/ proxyLog.name = <<>>) =>
       proxyLog.reply.status = 400 /\ ~proxyLog.reply.gateway
C13_NoRequestWithoutInput == [][C13_Step]_vars /\ []C13_RouteRefuses

\* The form is open with a name and no sample, its handler can be called,
\* nothing was issued, and the route has refused a request that named a
\* voice and carried no file.
C13_Witness ==
    /\ isVoiceDialogOpen
    /\ voiceName # <<>>
    /\ selectedFile = None /\ recordedAudio = None
    /\ nClone = 0 /\ ~isCloning
    /\ proxyLog.files = 0 /\ proxyLog.name # <<>>
    /\ proxyLog.reply.status = 400

\* C15: a clone call that settles either appends one voice with a non-empty
\* id and selects it, or leaves the voice list and the selection as they
\* were; no voice of the list has an empty id; and the route answers a
\* Gateway success that carries no voice id with a failure status.
C15_Step ==
    cloneCalls' # cloneCalls /\ nClone' = nClone =>
       \/ UNCHANGED <<voices, selectedVoice>> /\ toast' = "CloneFailed"
       \/ /\ Len(voices') = Len(voices) + 1
          /\ SubSeq(voices', 1, Len(voices)) = voices
          /\ voices'[Len(voices')].voice_id # ""
          /\ selectedVoice' = voices'[Len(voices')].voice_id
C15_NoEmptyId == \A i \in 1..Len(voices) : voices[i].voice_id # ""
C15_RouteChecksId ==
    proxyLog.reply.status = 200 => proxyLog.reply.voice_id # ""
C15_CloneNeedsVoiceId ==
    /\ [][C15_Step]_vars
    /\ [](C15_NoEmptyId /\ C15_RouteChecksId)

\* A clone call was issued and failed, the voice list is the one the server
\* listed, and the route has turned a Gateway success without an id into a
\* status 500.
C15_Witness ==
    /\ toast = "CloneFailed"
    /\ nClone = 1 /\ cloneCalls = {}
    /\ voices = ServerVoices
    /\ proxyLog.answer = "ok" /\ proxyLog.answered_id = ""
    /\ proxyLog.files = 1 /\ proxyLog.name # <<>>
    /\ proxyLog.reply.status = 500

----------------------------------------------------------------------------
(* The history panel *)

\* C14: a fetchHistory call that ends without an answer (the fetch was
\* rejected or answered with a failure status) leaves the panel's history
\* items exactly as they were and, while the panel is shown, raises the
\* error notification; the items change at the end of a call only to the
\* list that call was answered with.
Ended(c) == \A d \in fetchCalls' : d.id # c.id
C14_Step ==
    /\ \A c \in fetchCalls :
          Ended(c) /\ c.pc = "sent" =>
             /\ historyItems' = historyItems
             /\ ~c.orphan => toast' = "HistoryFailed"
    /\ \A c \in fetchCalls :
          Ended(c) /\ historyItems' # historyItems =>
             c.pc = "answered" /\ historyItems' = c.data
C14_FailedFetchKeepsItems == [][C14_Step]_vars

\* The panel shows items of an earlier fetch, and a later fetch has failed.
C14_Witness ==
    /\ activeTab = "history"
    /\ historyItems # <<>>
    /\ toast = "HistoryFailed"
    /\ ~panelLoading
    /\ fetchCalls = {}

----------------------------------------------------------------------------
(* Recording *)

\* No recording is under way and none is held.
RecorderIdle ==
    /\ ~isRecording
    /\ timers = {}
    /\ mediaRecorder = NoRecorder
    /\ recordedAudio = None

\* C18: the step in which a microphone request of startRecording is refused
\* raises the error notification and changes nothing of the recording
\* session: the recording flag, the recorder held, the recorders, the
\* duration timer and the sample stay as they were, so an idle session
\* stays idle.
C18_Step ==
    micCalls' # micCalls /\ nMic' = nMic /\ recorders' = recorders =>
       /\ toast' = "MicFailed"
       /\ UNCHANGED <<isRecording, mediaRecorder, recordingTimerRef, timers,
                      recordedAudio, audioURL, recordingDuration>>
       /\ RecorderIdle => RecorderIdle'
C18_MicFailureStaysIdle == [][C18_Step]_vars

\* Every microphone request was refused and the session is idle.
C18_Witness ==
    /\ toast = "MicFailed"
    /\ nMic > 0 /\ micCalls = {}
    /\ recorders = <<>>
    /\ RecorderIdle

\* C19: a selected upload file and a finalized recording never both exist.
C19_FileOrRecording == ~(selectedFile # None /\ recordedAudio # None)

\* C20: the session is never recording while a finalized sample exists,
\* and at most one recorder is capturing.
C20_OneRecording ==
    /\ ~(isRecording /\ recordedAudio # None)
    /\ Cardinality(Capturing) <= 1

----------------------------------------------------------------------------
(* localStorage *)

\* C16: whatever the two keys hold when the page is opened, the history and
\* the presets cells hold collections (the empty one when the stored value
\* is not a serialized collection), and neither the startup render nor a
\* later render, synthesis or preset load throws.
C16_StartupSurvivesStoredValues ==
    /\ ~crashed
    /\ historyKind = "array"
    /\ presetsKind = "array"

\* The page is loaded again: the cells of the page before are gone.
ReloadStep == voices # <<>> /\ voices' = <<>>

\* C17: the stored value of each key is the serialization of the collection
\* in memory; loading the page again gives the collections that were in
\* memory and keeps what was stored.
C17_Persisted ==
    /\ storedHistory = StringifyHistory(audioHistory)
    /\ storedPresets = StringifyPresets(presets)
C17_Step ==
    ReloadStep =>
       /\ audioHistory' = audioHistory
       /\ presets' = presets
       /\ storedHistory' = storedHistory
       /\ storedPresets' = storedPresets
C17_ReloadRestoresCollections == []C17_Persisted /\ [][C17_Step]_vars
----------------------------------------------------------------------------
(* Claims C21-C30 *)

\* The recorders whose stream still holds the microphone: the tracks are
\* stopped by the recorder's onstop (part_004:439) and nowhere else.
TracksHeld == { r \in DOMAIN recorders : recorders[r] # "inactive" }

\* The session is idle: not recording, no microphone request pending and no
\* stop event still to come.
SessionIdle ==
    /\ ~isRecording
    /\ micCalls = {}
    /\ \A r \in DOMAIN recorders : recorders[r] # "stopping"

RecorderIds == 1..(MaxMic + 1)

\* a recorder that was stopped delivers a sample made of all it gathered
C21_StopFinalizes ==
    \A r \in RecorderIds :
        (r \in DOMAIN recorders /\ recorders[r] = "stopping")
        ~> (/\ r \in DOMAIN recorders
            /\ recorders[r] = "inactive"
            /\ recordedAudio = BlobOf(captured[r]))

\* a stop issued while recording leaves the session's flag down, and the
\* stopped recorder's duration interval is not alive
C21_StopStopsCounter ==
    [](\A r \in DOMAIN recorders : recorders[r] # "recording" => r \notin timers)

\* once idle, no track is held and no duration interval runs
C21_IdleHoldsNothing ==
    [](SessionIdle => TracksHeld = {} /\ timers = {})

\* C21: every stop issued while recording eventually yields a finalized
\* sample built from all that was captured, stops the duration counter and
\* releases every device track startRecording acquired: once the session is
\* idle no microphone track is held and no duration timer runs.
C21_StopReleasesEverything ==
    /\ C21_StopFinalizes
    /\ C21_StopStopsCounter
    /\ C21_IdleHoldsNothing

\* The routes the proxy offers to the page.
ProxyEndpoints == { "voices", "tts", "clone-voice", "rename", "delete-voice",
                    "history", "history-audio", "history-delete" }

\* The fixed texts the routes answer a failure with.
GenericErrors == { "Failed to fetch voices", "Failed to convert text to speech",
                   "Failed to clone voice", "Failed to rename voice",
                   "Failed to delete voice", "Failed to fetch history",
                   "Failed to delete history item", "Failed to fetch audio" }

AbsentGives500(routes) ==
    relayLog.route \in routes /\ relayLog.credential = Unset =>
       /\ relayLog.reply.status = 500
       /\ relayLog.reply.error \in GenericErrors

\* the routes other than clone-voice answer 500 with their fixed text
C22_OtherRoutes500 == AbsentGives500(ProxyEndpoints \ { "clone-voice" })

\* no response carries the credential
C22_NoKeyInBody ==
    relayLog.route \in ProxyEndpoints => relayLog.reply.error # Secret

\* C22: for every proxy endpoint, when the server-held credential is absent
\* the response has status 500 with a generic error message, and the
\* credential never appears in a response body.
C22_AbsentCredentialIs500 ==
    /\ AbsentGives500(ProxyEndpoints)
    /\ C22_NoKeyInBody

\* The settings bundle of a request body, as the Gateway's voice_settings.
SettingsSent(body) ==
    <<body.stability, body.similarity_boost, body.style,
      body.use_speaker_boost>>

TtsForwardedToGateway == relayLog.route = "tts" /\ relayLog.reply.called

\* the text and the voice id reach the Gateway unchanged
C23_TextAndVoiceForwarded ==
    TtsForwardedToGateway =>
       /\ relayLog.reply.forwarded.text = relayLog.body.text
       /\ relayLog.reply.forwarded.voiceId = relayLog.body.voiceId

\* C23: POST /api/tts forwards to the Gateway the text, the voice id and
\* the stability, similarity_boost, style and use_speaker_boost of the
\* request it received, unchanged.
C23_TtsForwardsSettings ==
    TtsForwardedToGateway =>
       /\ relayLog.reply.forwarded.text = relayLog.body.text
       /\ relayLog.reply.forwarded.voiceId = relayLog.body.voiceId
       /\ relayLog.reply.forwarded.voice_settings = SettingsSent(relayLog.body)

\* A playback source is held and sounding.
SourcePlaying == sourceRef # NoSource /\ sourceRef \in playing

\* the same, looked at only while no generation is under way and no
\* "ended" event is waiting to be dispatched
C24_SettledFlagMatchesSource ==
    synthCalls = {} /\ endedPending = {} => (isPlaying <=> SourcePlaying)

\* one direction of it: a flag that is down means silence
C24_SettledIdleIsSilent ==
    synthCalls = {} /\ endedPending = {} /\ ~isPlaying => playing = {}

\* C24: in every reachable state the playing flag is true if and only if a
\* playback source handle is held and playing, under synthesize, stop,
\* natural end, decode failure and the preview, reset and clone operations.
C24_FlagMatchesSource == isPlaying <=> SourcePlaying

\* the same, looked at only while a source sounds
C25_AudibleGainFollowsVolume == playing # {} => gainValue = volume

\* while muted and a source sounds, the gain is 0
C25_MutedGainIsZero == playing # {} /\ isMuted => gainValue = 0

\* C25: whenever the gain stage exists its gain is the volume divided by
\* 100 (both counted in hundredths here), after any sequence of volume
\* changes, mute, unmute and playback starts.
C25_GainFollowsVolume == audioContext => gainValue = volume

\* C26: every synthesis request that reaches the network carries a voice
\* identifier of a voice that is in the local voice list at the time of the
\* call, after voice deletion, cloning, preset loading and history recall.
C26_RequestsNameKnownVoice ==
    \A c \in synthCalls : c.voiceId \in VoiceIds(c.voices)

\* A step in which a cloning call ends in failure.
CloneFailureStep == cloneCalls' # cloneCalls /\ toast' = "CloneFailed"

\* A step that discards the finalized sample.
SampleDiscarded == recordedAudio # None /\ recordedAudio' = None

\* a finalized sample is discarded by Reset, by choosing a file, or at the
\* end of a cloning call (successful or not), and by nothing else
C27_DiscardedOnlyByThese ==
    [][SampleDiscarded =>
          ClickReset \/ ChooseFile \/ cloneCalls' # cloneCalls]_vars

\* C27: a finalized sample is discarded only by reset or by selecting an
\* upload file, and a cloning call that fails leaves the sample, the
\* selected file and the entered name available for another attempt.
C27_SampleSurvivesFailedClone ==
    /\ [][SampleDiscarded => ClickReset \/ ChooseFile]_vars
    /\ [][CloneFailureStep =>
             UNCHANGED <<recordedAudio, selectedFile, voiceName>>]_vars


\* The categories of the specification's Voice: a built-in voice (the
\* Gateway's "premade") or a cloned one.
SpecifiedCategories == { "premade", "cloned" }

\* A step in which a cloning call ends in success.
CloneSuccessStep == cloneCalls' # cloneCalls /\ toast' = "CloneOk"

\* the voice a successful cloning call adds is in the list, last, and is
\* the selected voice after the step
C28_ClonedVoiceAddedAndSelected ==
    [][CloneSuccessStep =>
          /\ Len(voices') = Len(voices) + 1
          /\ selectedVoice' = voices'[Len(voices')].voice_id
          /\ selectedVoice' \notin VoiceIds(voices)]_vars

\* the voice selected by a successful cloning call is one the selector
\* offers
C28_ClonedVoiceOffered ==
    [][CloneSuccessStep => selectedVoice' \in ClonedIds(voices')]_vars

\* C28: every voice of the local list has category built-in or cloned; the
\* voice a successful cloning call adds has category cloned, is among the
\* cloned voices the selector offers and is the selected voice once the
\* call completes.
C28_VoicesAreBuiltInOrCloned ==
    /\ [](\A i \in 1..Len(voices) : voices[i].category \in SpecifiedCategories)
    /\ [][CloneSuccessStep =>
             /\ voices'[Len(voices')].category = "cloned"
             /\ selectedVoice' = voices'[Len(voices')].voice_id
             /\ selectedVoice' \in ClonedIds(voices')]_vars

\* The voices of a list other than the voice t.
Others(vs, t) == { vs[i] : i \in { j \in 1..Len(vs) : vs[j].voice_id # t } }

\* a cloning completion keeps every voice the list held
C29_CloneKeepsTheList ==
    [][CloneSuccessStep => SubSeq(voices', 1, Len(voices)) = voices]_vars

\* a deletion or rename that completes over the list it was issued on
\* changes only its target
C29_UninterleavedTouchesTargetOnly ==
    /\ [][\A c \in deleteCalls \ deleteCalls' :
             toast' = "DeleteOk" /\ c.voices = voices =>
                 /\ Others(voices', c.voiceId) = Others(voices, c.voiceId)
                 /\ c.voiceId \notin VoiceIds(voices')]_vars
    /\ [][\A c \in renameCalls \ renameCalls' :
             toast' = "RenameOk" /\ c.voices = voices =>
                 /\ Others(voices', c.voiceId) = Others(voices, c.voiceId)
                 /\ VoiceIds(voices') = VoiceIds(voices)]_vars

\* once the list is loaded, a voice leaves it only by a deletion that
\* targets it
C29_VoiceLeavesOnlyByItsDeletion ==
    [][~isLoadingVoices =>
          \A id \in VoiceIds(voices) \ VoiceIds(voices') : id \in deleted']_vars

\* a deleted voice does not come back into the list
C29_DeletedStaysRemoved ==
    [][\A id \in deleted \ VoiceIds(voices) : id \notin VoiceIds(voices')]_vars

\* C29: the voice list loses no update under interleaving: a voice added
\* by a cloning completion stays in the list, and a voice removed by a
\* deletion's completion stays removed, when a deletion or a rename issued
\* earlier completes afterwards; each completion changes only the voice it
\* targets.
C29_CompletionTouchesTargetOnly ==
    /\ [][\A c \in deleteCalls \ deleteCalls' :
             toast' = "DeleteOk" =>
                 /\ Others(voices', c.voiceId) = Others(voices, c.voiceId)
                 /\ c.voiceId \notin VoiceIds(voices')]_vars
    /\ [][\A c \in renameCalls \ renameCalls' :
             toast' = "RenameOk" =>
                 /\ Others(voices', c.voiceId) = Others(voices, c.voiceId)
                 /\ VoiceIds(voices') = VoiceIds(voices)]_vars

\* The sources whose end-of-playback callback runs in a step.
EndedIn == endedPending \ endedPending'

\* the end-of-playback callback of the source the handle refers to clears
\* the handle and the flag
C30_CurrentSourceEndClears ==
    [][\A s \in EndedIn : s = sourceRef =>
          sourceRef' = NoSource /\ ~isPlaying']_vars

\* C30: the end-of-playback callback of a source that was stopped or
\* preempted, running after a newer source was started, neither clears the
\* newer source's handle nor sets the playing flag to false while the newer
\* source is playing.
C30_StaleEndLeavesNewerSource ==
    [][\A s \in EndedIn : sourceRef # NoSource /\ sourceRef # s =>
          /\ sourceRef' = sourceRef
          /\ sourceRef \in playing /\ isPlaying => isPlaying']_vars
====
